---- MODULE Spec2Model ----
(***************************************************************************)
(* Model of the project assessor of oslo_ai_planning_system.py:           *)
(* OsloAIPlanningSystem.analyze_project_risk, identify_stakeholders,      *)
(* generate_timeline and get_regulatory_requirements.                     *)
(*                                                                         *)
(* The risk arithmetic of the source is Python float arithmetic, that is  *)
(* IEEE-754 binary64 with round-to-nearest-even.  The outcome of the      *)
(* threshold comparisons and of round(total, 2) depends on the rounding   *)
(* error of every single operation, so floats are modelled bit-exactly:   *)
(* a non-negative float is the natural number x / 2^-60, kept as a tuple  *)
(* of five 15-bit limbs (least significant first).  Every float the       *)
(* assessor produces is a multiple of 2^-60 below 2^15.                   *)
(***************************************************************************)
EXTENDS Integers, Sequences, FiniteSets, TLC

(***************************************************************************)
(* Natural numbers of arbitrary size: little-endian tuples of 15-bit limbs *)
(***************************************************************************)
LimbBits == 15
LimbBase == 32768
FracLimbs == 4
ValLimbs == 5
MantBits == 53

Pow2(n) == 2 ^ n

Zeros(n) == [i \in 1..n |-> 0]

\* a resized to exactly n limbs (high limbs dropped or zero-filled)
Resize(a, n) == IF Len(a) >= n THEN SubSeq(a, 1, n) ELSE a \o Zeros(n - Len(a))

RECURSIVE AddCarry(_, _, _, _)
AddCarry(a, b, i, c) ==
    IF i > Len(a) THEN <<c>>
    ELSE LET s == a[i] + b[i] + c
         IN  <<s % LimbBase>> \o AddCarry(a, b, i + 1, s \div LimbBase)

\* a + b for tuples of equal length n; the result has n + 1 limbs
BigAdd(a, b) == AddCarry(a, b, 1, 0)

RECURSIVE MulCarry(_, _, _, _)
MulCarry(a, k, i, c) ==
    IF i > Len(a) THEN <<c>>
    ELSE LET p == a[i] * k + c
         IN  <<p % LimbBase>> \o MulCarry(a, k, i + 1, p \div LimbBase)

\* a * k for 0 <= k < LimbBase; the result has Len(a) + 1 limbs
BigMulSmall(a, k) == MulCarry(a, k, 1, 0)

\* the sum of the limbs of weight LimbBase^(col-1) in the rows a * b[j]
RECURSIVE ColumnSum(_, _, _)
ColumnSum(rows, col, j) ==
    IF j = 0 THEN 0
    ELSE LET i == col - j + 1
         IN  (IF i >= 1 /\ i <= Len(rows[j]) THEN rows[j][i] ELSE 0)
             + ColumnSum(rows, col, j - 1)

RECURSIVE ColumnCarry(_, _, _, _)
ColumnCarry(rows, col, n, c) ==
    IF col > n THEN <<>>
    ELSE LET t == ColumnSum(rows, col, Len(rows)) + c
         IN  <<t % LimbBase>> \o ColumnCarry(rows, col + 1, n, t \div LimbBase)

\* the rows a * b[j], a * b[j+1], ... of the long multiplication
RECURSIVE MulRows(_, _, _)
MulRows(a, b, j) ==
    IF j > Len(b) THEN <<>>
    ELSE <<BigMulSmall(a, b[j])>> \o MulRows(a, b, j + 1)

\* a * b; the result has Len(a) + Len(b) limbs
BigMul(a, b) == ColumnCarry(MulRows(a, b, 1), 1, Len(a) + Len(b), 0)

RECURSIVE DivStep(_, _, _, _)
DivStep(a, d, i, r) ==
    IF i = 0 THEN [quot |-> <<>>, rem |-> r]
    ELSE LET cur  == r * LimbBase + a[i]
             rest == DivStep(a, d, i - 1, cur % d)
         IN  [quot |-> Append(rest.quot, cur \div d), rem |-> rest.rem]

\* quotient and remainder of a by 0 < d < LimbBase
BigDivSmall(a, d) == DivStep(a, d, Len(a), 0)

RECURSIVE CmpFrom(_, _, _)
CmpFrom(a, b, i) ==
    IF i = 0 THEN 0
    ELSE IF a[i] < b[i] THEN -1
    ELSE IF a[i] > b[i] THEN 1
    ELSE CmpFrom(a, b, i - 1)

\* -1, 0 or 1 as a < b, a = b, a > b (equal lengths)
BigCmp(a, b) == CmpFrom(a, b, Len(a))

RECURSIVE SmallBitLen(_)
SmallBitLen(n) == IF n = 0 THEN 0 ELSE 1 + SmallBitLen(n \div 2)

RECURSIVE TopLimb(_, _)
TopLimb(a, i) == IF i = 0 \/ a[i] # 0 THEN i ELSE TopLimb(a, i - 1)

\* number of significant bits of a (0 for zero)
BitLen(a) ==
    LET t == TopLimb(a, Len(a))
    IN  IF t = 0 THEN 0 ELSE (t - 1) * LimbBits + SmallBitLen(a[t])

\* bit i of a (bit 0 is the least significant)
Bit(a, i) == (a[(i \div LimbBits) + 1] \div Pow2(i % LimbBits)) % 2

\* TRUE iff some bit of a below bit i is set
Sticky(a, i) ==
    LET q == i \div LimbBits
    IN  \/ \E j \in 1..q : a[j] # 0
        \/ (q + 1 <= Len(a) /\ a[q + 1] % Pow2(i % LimbBits) # 0)

\* a with all bits below bit s cleared
ClearBelow(a, s) ==
    LET q == s \div LimbBits
    IN  [i \in 1..Len(a) |->
            IF i <= q THEN 0
            ELSE IF i = q + 1 THEN a[i] - (a[i] % Pow2(s % LimbBits))
            ELSE a[i]]

\* the natural number 2^s as a tuple of n limbs
BigPow2(s, n) ==
    [i \in 1..n |-> IF i = (s \div LimbBits) + 1 THEN Pow2(s % LimbBits) ELSE 0]

(***************************************************************************)
(* IEEE-754 binary64 arithmetic, round-to-nearest, ties-to-even            *)
(***************************************************************************)
\* a rounded to MantBits significant bits
RoundSig(a) ==
    LET DropBits(s) ==
            IF s <= 0 THEN a
            ELSE IF Bit(a, s - 1) = 1 /\ (Sticky(a, s - 1) \/ Bit(a, s) = 1)
            THEN Resize(BigAdd(ClearBelow(a, s), BigPow2(s, Len(a))), Len(a))
            ELSE ClearBelow(a, s)
    IN  DropBits(BitLen(a) - MantBits)

\* drops the FracLimbs low limbs (division by 2^60 of a multiple of 2^60)
DropFrac(a) == SubSeq(a, FracLimbs + 1, Len(a))

\* float(n) for an int 0 <= n < LimbBase
FromInt(n) == <<0, 0, 0, 0, n>>

\* the float a decimal literal num/den denotes (the nearest binary64)
Dbl(num, den) ==
    LET d == BigDivSmall(Zeros(2 * FracLimbs) \o <<num>>, den)
        q == IF d.rem = 0 THEN d.quot
             ELSE [d.quot EXCEPT ![1] = d.quot[1] - (d.quot[1] % 2) + 1]
    IN  Resize(DropFrac(RoundSig(q)), ValLimbs)

\* x + y
FAdd(x, y) == Resize(RoundSig(BigAdd(x, y)), ValLimbs)

\* x * y
FMul(x, y) == Resize(DropFrac(RoundSig(BigMul(x, y))), ValLimbs)

\* n * x for an int 0 <= n < LimbBase: the exact product, rounded once
FMulInt(n, x) == Resize(RoundSig(BigMulSmall(x, n)), ValLimbs)

FLt(x, y) == BigCmp(x, y) < 0
FGt(x, y) == BigCmp(x, y) > 0
FMin(x, y) == IF FLt(y, x) THEN y ELSE x

\* int(x): truncation toward zero
FTrunc(x) == x[ValLimbs]

\* round(x, 2): the exact value of x rounded half-even to two decimals,
\* then converted to the nearest float
Round2(x) ==
    LET h    == BigMulSmall(x, 100)
        half == FracLimbs * LimbBits - 1
        n    == h[ValLimbs] + LimbBase * h[ValLimbs + 1]
        up   == Bit(h, half) = 1 /\ (Sticky(h, half) \/ n % 2 = 1)
    IN  Dbl(IF up THEN n + 1 ELSE n, 100)

(***************************************************************************)
(* Python values of a project description                                  *)
(*                                                                         *)
(* A value is a record [t, n, s]: t is the Python type ("int", "bool",     *)
(* "str", "NoneType"), n the number of an int or bool, s the characters of *)
(* a str.  A project description is a function from the keys it holds to   *)
(* values (a Python dict).                                                 *)
(***************************************************************************)
PyInt(k) == [t |-> "int", n |-> k, s |-> <<>>]
PyBool(b) == [t |-> "bool", n |-> IF b THEN 1 ELSE 0, s |-> <<>>]
PyStr(chars) == [t |-> "str", n |-> 0, s |-> chars]
PyNone == [t |-> "NoneType", n |-> 0, s |-> <<>>]

\* mutant: dict.get(key), which gives None for an absent key
GetWithoutDefault(project_data, key, default) ==
    IF key \in DOMAIN project_data THEN project_data[key] ELSE PyNone

\* dict.get(key, default)
Get(project_data, key, default) ==
    IF key \in DOMAIN project_data THEN project_data[key] ELSE default

\* bool(v), the truth value an `if` takes
Truthy(v) ==
    CASE v.t = "bool" -> v.n = 1
      [] v.t = "int" -> v.n # 0
      [] v.t = "str" -> Len(v.s) > 0
      [] OTHER -> FALSE

\* int and bool support comparison and arithmetic with numbers
IsNumber(v) == v.t \in {"int", "bool"}

\* the letters str.lower() changes, among those the inputs are written in
LowerMap ==
    "A" :> "a" @@ "B" :> "b" @@ "C" :> "c" @@ "D" :> "d" @@ "E" :> "e" @@ "F" :> "f" @@
    "G" :> "g" @@ "H" :> "h" @@ "I" :> "i" @@ "J" :> "j" @@ "K" :> "k" @@ "L" :> "l" @@
    "M" :> "m" @@ "N" :> "n" @@ "O" :> "o" @@ "P" :> "p" @@ "Q" :> "q" @@ "R" :> "r" @@
    "S" :> "s" @@ "T" :> "t" @@ "U" :> "u" @@ "V" :> "v" @@ "W" :> "w" @@ "X" :> "x" @@
    "Y" :> "y" @@ "Z" :> "z" @@ "Æ" :> "æ" @@ "Ø" :> "ø" @@ "Å" :> "å"

LowerChar(c) == IF c \in DOMAIN LowerMap THEN LowerMap[c] ELSE c

\* str.lower()
Lower(chars) == [i \in 1..Len(chars) |-> LowerChar(chars[i])]

\* sub in chars
Contains(sub, chars) ==
    \E i \in 0..(Len(chars) - Len(sub)) :
        \A j \in 1..Len(sub) : chars[i + j] = sub[j]

naturomraade == <<"n", "a", "t", "u", "r", "o", "m", "r", "å", "d", "e">>
vannomraade == <<"v", "a", "n", "n", "o", "m", "r", "å", "d", "e">>
hovedvei == <<"h", "o", "v", "e", "d", "v", "e", "i">>
boligomraade == <<"b", "o", "l", "i", "g", "o", "m", "r", "å", "d", "e">>

(***************************************************************************)
(* Float literals of the source                                            *)
(***************************************************************************)
F0_0 == FromInt(0)
F1_0 == FromInt(1)
F0_1 == Dbl(1, 10)
F0_15 == Dbl(15, 100)
F0_2 == Dbl(2, 10)
F0_25 == Dbl(25, 100)
F0_3 == Dbl(3, 10)
F0_4 == Dbl(4, 10)
F0_5 == Dbl(5, 10)
F0_6 == Dbl(6, 10)
F0_7 == Dbl(7, 10)
F0_8 == Dbl(8, 10)

\* mutant: the environmental weight is 0.4, the weights sum to 1.1
risk_factors_environmental_0_4 ==
    [environmental |-> F0_4, traffic |-> F0_25, neighbor_opposition |-> F0_2,
     regulatory_complexity |-> F0_15, technical_difficulty |-> F0_1]

risk_factors ==
    [environmental |-> F0_3, traffic |-> F0_25, neighbor_opposition |-> F0_2,
     regulatory_complexity |-> F0_15, technical_difficulty |-> F0_1]

(***************************************************************************)
(* Risk scoring.  A computation either returns a value or raises:          *)
(* [err |-> "", val |-> v] or [err |-> exception, val |-> <<>>].           *)
(***************************************************************************)
Return(v) == [err |-> "", val |-> v]
Raise(e) == [err |-> e, val |-> <<>>]

\* base_risk += inc when cond
AddIf(cond, base_risk, inc) == IF cond THEN FAdd(base_risk, inc) ELSE base_risk

\* mutant: the sub-score is returned without the clamp
ClampMissing(base_risk) == base_risk

\* min(base_risk, 1.0)
Clamp(base_risk) == FMin(base_risk, F1_0)

_calculate_environmental_risk(project_data) ==
    LET location == Get(project_data, "location", PyStr(<<>>))
        height   == Get(project_data, "building_height", PyInt(0))
        features == Get(project_data, "nearby_features", PyStr(<<>>))
    IN  IF location.t # "str" THEN Raise("AttributeError")
        ELSE IF ~IsNumber(height) THEN Raise("TypeError")
        ELSE IF features.t # "str" THEN Raise("AttributeError")
        ELSE LET r1 == AddIf(Contains(naturomraade, Lower(location.s)), F0_3, F0_4)
                 r2 == AddIf(height.n > 8, r1, F0_2)
                 r3 == AddIf(Contains(vannomraade, Lower(features.s)), r2, F0_3)
             IN  Return(Clamp(r3))

_calculate_traffic_risk(project_data) ==
    LET units   == Get(project_data, "residential_units", PyInt(0))
        roads   == Get(project_data, "nearby_roads", PyStr(<<>>))
        parking == Get(project_data, "parking_spaces", PyInt(0))
    IN  IF ~IsNumber(units) THEN Raise("TypeError")
        ELSE IF roads.t # "str" THEN Raise("AttributeError")
        ELSE IF ~IsNumber(parking) THEN Raise("TypeError")
        ELSE LET r1 == AddIf(units.n > 100, F0_2, F0_3)
                 r2 == AddIf(Contains(hovedvei, Lower(roads.s)), r1, F0_2)
                 r3 == AddIf(FLt(FromInt(parking.n), FMulInt(units.n, F0_8)),
                             r2, F0_25)
             IN  Return(Clamp(r3))

_calculate_neighbor_risk(project_data) ==
    LET height   == Get(project_data, "building_height", PyInt(0))
        zone     == Get(project_data, "zone_type", PyStr(<<>>))
        duration == Get(project_data, "construction_duration", PyInt(0))
    IN  IF ~IsNumber(height) THEN Raise("TypeError")
        ELSE IF zone.t # "str" THEN Raise("AttributeError")
        ELSE IF ~IsNumber(duration) THEN Raise("TypeError")
        ELSE LET r1 == AddIf(height.n > 6, F0_25, F0_2)
                 r2 == AddIf(Contains(boligomraade, Lower(zone.s)), r1, F0_15)
                 r3 == AddIf(duration.n > 24, r2, F0_1)
             IN  Return(Clamp(r3))

_calculate_regulatory_risk(project_data) ==
    LET r1 == AddIf(Truthy(Get(project_data, "requires_zoning_change", PyBool(FALSE))),
                    F0_1, F0_4)
        r2 == AddIf(Truthy(Get(project_data, "heritage_area", PyBool(FALSE))), r1, F0_3)
        r3 == AddIf(Truthy(Get(project_data, "environmental_impact", PyBool(FALSE))),
                    r2, F0_2)
    IN  Return(Clamp(r3))

_calculate_technical_risk(project_data) ==
    LET r1 == AddIf(Truthy(Get(project_data, "complex_foundation", PyBool(FALSE))),
                    F0_15, F0_25)
        r2 == AddIf(Truthy(Get(project_data, "innovative_design", PyBool(FALSE))),
                    r1, F0_2)
        r3 == AddIf(Truthy(Get(project_data, "tight_site", PyBool(FALSE))), r2, F0_15)
    IN  Return(Clamp(r3))

\* mutant: the level is taken from the score rounded to two decimals
_get_risk_level_of_rounded(risk_score) ==
    IF FLt(Round2(risk_score), F0_3) THEN "Low"
    ELSE IF FLt(Round2(risk_score), F0_6) THEN "Medium"
    ELSE IF FLt(Round2(risk_score), F0_8) THEN "High"
    ELSE "Critical"

\* mutant: the last bucket is missing
_get_risk_level_without_critical(risk_score) ==
    IF FLt(risk_score, F0_3) THEN "Low"
    ELSE IF FLt(risk_score, F0_6) THEN "Medium"
    ELSE "High"

_get_risk_level(risk_score) ==
    IF FLt(risk_score, F0_3) THEN "Low"
    ELSE IF FLt(risk_score, F0_6) THEN "Medium"
    ELSE IF FLt(risk_score, F0_8) THEN "High"
    ELSE "Critical"

\* the three recommendation tiers (the pictograph that starts each string
\* in the source is left out)
RecsHigh ==
    <<"Consider comprehensive stakeholder engagement strategy",
      "Conduct detailed environmental impact assessment",
      "Engage with regulatory authorities early">>
RecsMedium ==
    <<"Implement proactive neighbor consultation",
      "Conduct traffic impact analysis",
      "Consider environmental mitigation measures">>
RecsLow ==
    <<"Project appears low risk",
      "Focus on efficient permit processing",
      "Standard regulatory compliance approach">>

\* mutant: the middle tier starts at 0.6
_generate_risk_recommendations_from_0_6(risk_score) ==
    IF FGt(risk_score, F0_7) THEN RecsHigh
    ELSE IF FGt(risk_score, F0_6) THEN RecsMedium
    ELSE RecsLow

_generate_risk_recommendations(risk_score) ==
    IF FGt(risk_score, F0_7) THEN RecsHigh
    ELSE IF FGt(risk_score, F0_5) THEN RecsMedium
    ELSE RecsLow

\* mutant: the technical term is left out of the sum
WeightedTotalWithoutTechnical(e, t, n, r, k) ==
    FAdd(FAdd(FAdd(FMul(e, risk_factors.environmental),
                   FMul(t, risk_factors.traffic)),
              FMul(n, risk_factors.neighbor_opposition)),
         FMul(r, risk_factors.regulatory_complexity))

\* the weighted sum of lines 192-198, added left to right
WeightedTotal(e, t, n, r, k) ==
    FAdd(FAdd(FAdd(FAdd(FMul(e, risk_factors.environmental),
                        FMul(t, risk_factors.traffic)),
                   FMul(n, risk_factors.neighbor_opposition)),
              FMul(r, risk_factors.regulatory_complexity)),
         FMul(k, risk_factors.technical_difficulty))

analyze_project_risk(project_data) ==
    LET Assessment(e, t, n, r, k, total_risk) ==
            Return([total_risk_score |-> Round2(total_risk),
                    environmental_risk |-> e,
                    traffic_risk |-> t,
                    neighbor_risk |-> n,
                    regulatory_risk |-> r,
                    technical_risk |-> k,
                    risk_level |-> _get_risk_level(total_risk),
                    recommendations |-> _generate_risk_recommendations(total_risk)])
        Combine(e, t, n, r, k) ==
            IF e.err # "" THEN Raise(e.err)
            ELSE IF t.err # "" THEN Raise(t.err)
            ELSE IF n.err # "" THEN Raise(n.err)
            ELSE Assessment(e.val, t.val, n.val, r.val, k.val,
                            WeightedTotal(e.val, t.val, n.val, r.val, k.val))
    IN  Combine(_calculate_environmental_risk(project_data),
                _calculate_traffic_risk(project_data),
                _calculate_neighbor_risk(project_data),
                _calculate_regulatory_risk(project_data),
                _calculate_technical_risk(project_data))

(***************************************************************************)
(* Stakeholder derivation                                                  *)
(***************************************************************************)
CoreStakeholders ==
    <<[name |-> "Plan- og bygningsetaten (PBE)", type |-> "Regulatory Authority",
       influence |-> 5, interest |-> 5,
       engagement_strategy |-> "Formal application process and regular consultations"],
      [name |-> "Bymiljøetaten (BYM)", type |-> "Municipal Department",
       influence |-> 4, interest |-> 4,
       engagement_strategy |-> "Early consultation on environmental impacts"]>>

EnvironmentStakeholder ==
    [name |-> "Miljødirektoratet", type |-> "National Authority",
     influence |-> 4, interest |-> 5,
     engagement_strategy |-> "Formal environmental impact assessment submission"]

HeritageStakeholder ==
    [name |-> "Riksantikvaren", type |-> "Cultural Heritage Authority",
     influence |-> 5, interest |-> 4,
     engagement_strategy |-> "Cultural heritage impact assessment and consultation"]

CommunityStakeholders ==
    <<[name |-> "Naboer og lokalmiljø", type |-> "Local Community",
       influence |-> 3, interest |-> 5,
       engagement_strategy |-> "Public meetings and information campaigns"],
      [name |-> "Bydelsutvalget", type |-> "District Committee",
       influence |-> 3, interest |-> 4,
       engagement_strategy |-> "Presentation to district committee"]>>

\* mutant: the community stakeholders are added from 50 units on
identify_stakeholders_from_50(project_data) ==
    LET units == Get(project_data, "residential_units", PyInt(0))
        s1 == CoreStakeholders
        s2 == IF Truthy(Get(project_data, "environmental_impact", PyBool(FALSE)))
              THEN Append(s1, EnvironmentStakeholder) ELSE s1
        s3 == IF Truthy(Get(project_data, "heritage_area", PyBool(FALSE)))
              THEN Append(s2, HeritageStakeholder) ELSE s2
    IN  IF ~IsNumber(units) THEN [err |-> "TypeError", val |-> <<>>]
        ELSE [err |-> "",
              val |-> IF units.n >= 50 THEN s3 \o CommunityStakeholders ELSE s3]

identify_stakeholders(project_data) ==
    LET units == Get(project_data, "residential_units", PyInt(0))
        s1 == CoreStakeholders
        s2 == IF Truthy(Get(project_data, "environmental_impact", PyBool(FALSE)))
              THEN Append(s1, EnvironmentStakeholder) ELSE s1
        s3 == IF Truthy(Get(project_data, "heritage_area", PyBool(FALSE)))
              THEN Append(s2, HeritageStakeholder) ELSE s2
    IN  IF ~IsNumber(units) THEN [err |-> "TypeError", val |-> <<>>]
        ELSE [err |-> "",
              val |-> IF units.n > 50 THEN s3 \o CommunityStakeholders ELSE s3]

(***************************************************************************)
(* Timeline generation                                                     *)
(***************************************************************************)
\* mutant: the building-permit application depends on the public hearing
base_phases_skipping_review ==
    <<[name |-> "Forstudie og konseptutvikling", duration |-> 4, dependencies |-> <<>>],
      [name |-> "Reguleringsplan utarbeidelse", duration |-> 8,
       dependencies |-> <<"Forstudie og konseptutvikling">>],
      [name |-> "Offentlig høring", duration |-> 6,
       dependencies |-> <<"Reguleringsplan utarbeidelse">>],
      [name |-> "Politisk behandling", duration |-> 4,
       dependencies |-> <<"Offentlig høring">>],
      [name |-> "Byggesøknad", duration |-> 6,
       dependencies |-> <<"Offentlig høring">>],
      [name |-> "Detaljprosjektering", duration |-> 8,
       dependencies |-> <<"Byggesøknad">>],
      [name |-> "Byggestart", duration |-> 1,
       dependencies |-> <<"Detaljprosjektering">>]>>

base_phases ==
    <<[name |-> "Forstudie og konseptutvikling", duration |-> 4, dependencies |-> <<>>],
      [name |-> "Reguleringsplan utarbeidelse", duration |-> 8,
       dependencies |-> <<"Forstudie og konseptutvikling">>],
      [name |-> "Offentlig høring", duration |-> 6,
       dependencies |-> <<"Reguleringsplan utarbeidelse">>],
      [name |-> "Politisk behandling", duration |-> 4,
       dependencies |-> <<"Offentlig høring">>],
      [name |-> "Byggesøknad", duration |-> 6,
       dependencies |-> <<"Politisk behandling">>],
      [name |-> "Detaljprosjektering", duration |-> 8,
       dependencies |-> <<"Byggesøknad">>],
      [name |-> "Byggestart", duration |-> 1,
       dependencies |-> <<"Detaljprosjektering">>]>>

_get_phase_risks(phase_name) ==
    CASE phase_name = "Forstudie og konseptutvikling" -> <<"technical_risk">>
      [] phase_name = "Reguleringsplan utarbeidelse" ->
            <<"regulatory_risk", "environmental_risk">>
      [] phase_name = "Offentlig høring" -> <<"neighbor_risk">>
      [] phase_name = "Politisk behandling" -> <<"neighbor_risk", "environmental_risk">>
      [] phase_name = "Byggesøknad" -> <<"regulatory_risk", "technical_risk">>
      [] phase_name = "Detaljprosjektering" -> <<"technical_risk">>
      [] phase_name = "Byggestart" -> <<"neighbor_risk">>
      [] OTHER -> <<>>

\* mutant: the hearing is extended from a neighbor sub-score of 0.6 on
AdjustedDurationFrom_0_6(phase, risk_multiplier, project_data, risk_analysis) ==
    LET d0 == FTrunc(FMulInt(phase.duration, risk_multiplier))
        d1 == IF /\ phase.name = "Reguleringsplan utarbeidelse"
                 /\ Truthy(Get(project_data, "requires_zoning_change", PyBool(FALSE)))
              THEN d0 + 4 ELSE d0
    IN  IF phase.name = "Offentlig høring" /\ ~FLt(risk_analysis.neighbor_risk, F0_6)
        THEN d1 + 3 ELSE d1

\* int(phase['duration'] * risk_multiplier) and the two flat additions
AdjustedDuration(phase, risk_multiplier, project_data, risk_analysis) ==
    LET d0 == FTrunc(FMulInt(phase.duration, risk_multiplier))
        d1 == IF /\ phase.name = "Reguleringsplan utarbeidelse"
                 /\ Truthy(Get(project_data, "requires_zoning_change", PyBool(FALSE)))
              THEN d0 + 4 ELSE d0
    IN  IF phase.name = "Offentlig høring" /\ FGt(risk_analysis.neighbor_risk, F0_6)
        THEN d1 + 3 ELSE d1

\* the loop over base_phases[i..]
RECURSIVE OptimizedPhases(_, _, _, _)
OptimizedPhases(i, risk_multiplier, project_data, risk_analysis) ==
    IF i > Len(base_phases) THEN <<>>
    ELSE <<[name |-> base_phases[i].name,
            duration_weeks |->
                AdjustedDuration(base_phases[i], risk_multiplier,
                                 project_data, risk_analysis),
            dependencies |-> base_phases[i].dependencies,
            risk_factors |-> _get_phase_risks(base_phases[i].name)]>>
         \o OptimizedPhases(i + 1, risk_multiplier, project_data, risk_analysis)

\* mutant: the multiplier is 1 + total_risk_score
generate_timeline_full_score(project_data, risk_analysis) ==
    LET risk_multiplier == FAdd(F1_0, risk_analysis.total_risk_score)
    IN  OptimizedPhases(1, risk_multiplier, project_data, risk_analysis)

generate_timeline(project_data, risk_analysis) ==
    LET risk_multiplier == FAdd(F1_0, FMul(risk_analysis.total_risk_score, F0_5))
    IN  OptimizedPhases(1, risk_multiplier, project_data, risk_analysis)

(***************************************************************************)
(* Regulation catalog and applicability filter                             *)
(***************************************************************************)
regulations ==
    <<[regulation_name |-> "Plan- og bygningsloven (PBL)", regulation_type |-> "Lov",
       description |-> "Hovedloven for arealplanlegging og byggesaksbehandling",
       compliance_status |-> "mandatory",
       required_documents |->
           "Planbeskrivelse, reguleringsbestemmelser, konsekvensutredning",
       deadline_days |-> 180, priority_level |-> 1],
      [regulation_name |-> "Naturmangfoldloven", regulation_type |-> "Lov",
       description |-> "Beskyttelse av naturens mangfold",
       compliance_status |-> "conditional",
       required_documents |-> "Naturmangfoldutredning, kartlegging av arter",
       deadline_days |-> 120, priority_level |-> 2],
      [regulation_name |-> "Forurensningsloven", regulation_type |-> "Lov",
       description |-> "Regulering av forurensning til luft, vann og grunn",
       compliance_status |-> "conditional",
       required_documents |-> "Forurensningsutredning, støyanalyse",
       deadline_days |-> 90, priority_level |-> 2],
      [regulation_name |-> "TEK17 - Teknisk forskrift", regulation_type |-> "Forskrift",
       description |-> "Tekniske krav til bygninger",
       compliance_status |-> "mandatory",
       required_documents |-> "Teknisk dokumentasjon, energiberegninger",
       deadline_days |-> 60, priority_level |-> 1],
      [regulation_name |-> "Kommuneplanens arealdel", regulation_type |-> "Lokal forskrift",
       description |-> "Oslos overordnede arealplan",
       compliance_status |-> "mandatory",
       required_documents |-> "Konformitetsanalyse",
       deadline_days |-> 30, priority_level |-> 1]>>

\* the row INSERT stores for reg when the table holds n rows
\* (id INTEGER PRIMARY KEY AUTOINCREMENT)
InsertedRow(reg, n) ==
    [id |-> n + 1,
     regulation_name |-> reg.regulation_name,
     regulation_type |-> reg.regulation_type,
     description |-> reg.description,
     compliance_status |-> reg.compliance_status,
     required_documents |-> reg.required_documents,
     deadline_days |-> reg.deadline_days,
     priority_level |-> reg.priority_level]

\* the table after populate_regulatory_data ran on table
populate_regulatory_data(table) ==
    table \o [i \in 1..Len(regulations) |-> InsertedRow(regulations[i], Len(table) + i - 1)]

\* mutant: without environmental_impact every record is dropped, whatever its name or status
IsApplicableFlagOnly(req, project_data) ==
    LET units == Get(project_data, "residential_units", PyInt(0))
        ptype == Get(project_data, "project_type", PyStr(<<>>))
    IN  IF TRUE
        THEN IF /\ TRUE
                /\ ~Truthy(Get(project_data, "environmental_impact", PyBool(FALSE)))
             THEN [err |-> "", val |-> FALSE]
             ELSE IF /\ req.regulation_name = "Forurensningsloven"
                     /\ ptype = PyStr(<<"r", "e", "s", "i", "d", "e", "n", "t", "i", "a", "l">>)
             THEN IF ~IsNumber(units) THEN [err |-> "TypeError", val |-> FALSE]
                  ELSE [err |-> "", val |-> units.n > 100]
             ELSE [err |-> "", val |-> TRUE]
        ELSE [err |-> "", val |-> TRUE]

\* mutant: the nature-diversity rule is missing
IsApplicableNatureAlways(req, project_data) ==
    LET units == Get(project_data, "residential_units", PyInt(0))
        ptype == Get(project_data, "project_type", PyStr(<<>>))
    IN  IF req.compliance_status = "conditional"
        THEN IF /\ FALSE
                /\ ~Truthy(Get(project_data, "environmental_impact", PyBool(FALSE)))
             THEN [err |-> "", val |-> FALSE]
             ELSE IF /\ req.regulation_name = "Forurensningsloven"
                     /\ ptype = PyStr(<<"r", "e", "s", "i", "d", "e", "n", "t", "i", "a", "l">>)
             THEN IF ~IsNumber(units) THEN [err |-> "TypeError", val |-> FALSE]
                  ELSE [err |-> "", val |-> units.n > 100]
             ELSE [err |-> "", val |-> TRUE]
        ELSE [err |-> "", val |-> TRUE]

\* mutant: the pollution regulation applies from 100 units on
IsApplicableFrom100(req, project_data) ==
    LET units == Get(project_data, "residential_units", PyInt(0))
        ptype == Get(project_data, "project_type", PyStr(<<>>))
    IN  IF req.compliance_status = "conditional"
        THEN IF /\ req.regulation_name = "Naturmangfoldloven"
                /\ ~Truthy(Get(project_data, "environmental_impact", PyBool(FALSE)))
             THEN [err |-> "", val |-> FALSE]
             ELSE IF /\ req.regulation_name = "Forurensningsloven"
                     /\ ptype = PyStr(<<"r", "e", "s", "i", "d", "e", "n", "t", "i", "a", "l">>)
             THEN IF ~IsNumber(units) THEN [err |-> "TypeError", val |-> FALSE]
                  ELSE [err |-> "", val |-> units.n >= 100]
             ELSE [err |-> "", val |-> TRUE]
        ELSE [err |-> "", val |-> TRUE]

\* mutant: a conditional record without a rule is not applicable
IsApplicableDefaultFalse(req, project_data) ==
    LET units == Get(project_data, "residential_units", PyInt(0))
        ptype == Get(project_data, "project_type", PyStr(<<>>))
    IN  IF req.compliance_status = "conditional"
        THEN IF /\ req.regulation_name = "Naturmangfoldloven"
                /\ ~Truthy(Get(project_data, "environmental_impact", PyBool(FALSE)))
             THEN [err |-> "", val |-> FALSE]
             ELSE IF /\ req.regulation_name = "Forurensningsloven"
                     /\ ptype = PyStr(<<"r", "e", "s", "i", "d", "e", "n", "t", "i", "a", "l">>)
             THEN IF ~IsNumber(units) THEN [err |-> "TypeError", val |-> FALSE]
                  ELSE [err |-> "", val |-> units.n > 100]
             ELSE [err |-> "", val |-> FALSE]
        ELSE [err |-> "", val |-> TRUE]

\* is_applicable of one catalog row, or the exception its evaluation raises
IsApplicable(req, project_data) ==
    LET units == Get(project_data, "residential_units", PyInt(0))
        ptype == Get(project_data, "project_type", PyStr(<<>>))
    IN  IF req.compliance_status = "conditional"
        THEN IF /\ req.regulation_name = "Naturmangfoldloven"
                /\ ~Truthy(Get(project_data, "environmental_impact", PyBool(FALSE)))
             THEN [err |-> "", val |-> FALSE]
             ELSE IF /\ req.regulation_name = "Forurensningsloven"
                     /\ ptype = PyStr(<<"r", "e", "s", "i", "d", "e", "n", "t", "i", "a", "l">>)
             THEN IF ~IsNumber(units) THEN [err |-> "TypeError", val |-> FALSE]
                  ELSE [err |-> "", val |-> units.n > 100]
             ELSE [err |-> "", val |-> TRUE]
        ELSE [err |-> "", val |-> TRUE]

RECURSIVE FilterApplicable(_, _, _)
FilterApplicable(table, i, project_data) ==
    IF i > Len(table) THEN [err |-> "", val |-> <<>>]
    ELSE LET a == IsApplicable(table[i], project_data)
         IN  IF a.err # "" THEN [err |-> a.err, val |-> <<>>]
             ELSE LET rest == FilterApplicable(table, i + 1, project_data)
                  IN  IF rest.err # "" THEN rest
                      ELSE [err |-> "",
                            val |-> IF a.val THEN <<table[i]>> \o rest.val ELSE rest.val]

\* SELECT * FROM regulatory_compliance, then the filter loop
get_regulatory_requirements(table, project_data) ==
    FilterApplicable(table, 1, project_data)

(***************************************************************************)
(* Project descriptions the assessment is run on                           *)
(***************************************************************************)
Fields ==
    {"location", "project_type", "building_height", "residential_units",
     "parking_spaces", "construction_duration", "requires_zoning_change",
     "environmental_impact", "heritage_area", "zone_type", "nearby_features",
     "nearby_roads", "complex_foundation", "innovative_design", "tight_site"}
TextFields == {"location", "project_type", "zone_type", "nearby_features", "nearby_roads"}
NumberFields ==
    {"building_height", "residential_units", "parking_spaces", "construction_duration"}
FlagFields == Fields \ (TextFields \cup NumberFields)

\* the documented default of a field
DefaultOf(key) ==
    IF key \in TextFields THEN PyStr(<<>>)
    ELSE IF key \in NumberFields THEN PyInt(0)
    ELSE PyBool(FALSE)

LocationHit == <<"N", "a", "t", "u", "r", "O", "m", "r", "Å", "d", "e", "t">>
LocationMiss == <<"n", "a", "t", "u", "r", "o", "m", "r", "a", "d", "e">>
FeaturesHit == <<"v", "e", "d", " ", "V", "A", "N", "N", "O", "M", "R", "Å", "D", "E">>
FeaturesMiss == <<"v", "a", "n", "n">>
RoadsHit == <<"H", "o", "v", "e", "d", "v", "e", "i", "e", "n">>
RoadsMiss == <<"l", "o", "k", "a", "l", "v", "e", "i">>
ZoneHit == <<"B", "o", "l", "i", "g", "o", "m", "r", "å", "d", "e">>
ZoneMiss == <<"s", "e", "n", "t", "r", "u", "m">>
Residential == <<"r", "e", "s", "i", "d", "e", "n", "t", "i", "a", "l">>
Boligbygging == <<"B", "o", "l", "i", "g", "b", "y", "g", "g", "i", "n", "g">>

PyBools == {PyBool(FALSE), PyBool(TRUE)}

\* project_data with every absent field supplied with its documented default
Completed(project_data) ==
    [key \in Fields |->
        IF key \in DOMAIN project_data THEN project_data[key] ELSE DefaultOf(key)]

\* the three conditions each sub-score tests, in the order of the source
EnvironmentalConditions(p) ==
    <<Contains(naturomraade, Lower(p.location.s)),
      p.building_height.n > 8,
      Contains(vannomraade, Lower(p.nearby_features.s))>>
TrafficConditions(p) ==
    <<p.residential_units.n > 100,
      Contains(hovedvei, Lower(p.nearby_roads.s)),
      5 * p.parking_spaces.n < 4 * p.residential_units.n>>
NeighborConditions(p) ==
    <<p.building_height.n > 6,
      Contains(boligomraade, Lower(p.zone_type.s)),
      p.construction_duration.n > 24>>
RegulatoryConditions(p) ==
    <<Truthy(p.requires_zoning_change), Truthy(p.heritage_area),
      Truthy(p.environmental_impact)>>
TechnicalConditions(p) ==
    <<Truthy(p.complex_foundation), Truthy(p.innovative_design), Truthy(p.tight_site)>>

CountMet(conds) == Cardinality({i \in 1..Len(conds) : conds[i]})

\* the number of sub-scores with some but not all of their conditions met
MixedSubScores(p) ==
    Cardinality({i \in 1..5 :
        CountMet(<<EnvironmentalConditions(p), TrafficConditions(p),
                   NeighborConditions(p), RegulatoryConditions(p),
                   TechnicalConditions(p)>>[i]) \in {1, 2}})

\* at most MaxMixed sub-scores are mixed in a ConditionProjects input
MaxMixed == 2
\* at most MaxAbsent fields are absent (or present) in an AbsentProjects input
MaxAbsent == 2

\* the combinations of the conditions the five sub-scores test
ConditionProjects ==
    {p \in [location : {PyStr(LocationHit), PyStr(LocationMiss)},
            project_type : {PyStr(Boligbygging)},
            building_height : {PyInt(6), PyInt(8), PyInt(9)},
            residential_units : {PyInt(100), PyInt(101)},
            parking_spaces : {PyInt(79), PyInt(81)},
            construction_duration : {PyInt(24), PyInt(25)},
            requires_zoning_change : PyBools,
            environmental_impact : PyBools,
            heritage_area : PyBools,
            zone_type : {PyStr(ZoneHit), PyStr(ZoneMiss)},
            nearby_features : {PyStr(FeaturesHit), PyStr(FeaturesMiss)},
            nearby_roads : {PyStr(RoadsHit), PyStr(RoadsMiss)},
            complex_foundation : PyBools,
            innovative_design : PyBools,
            tight_site : PyBools] : MixedSubScores(p) <= MaxMixed}

\* the values around every numeric threshold, texts empty, other flags unset
BoundaryProjects ==
    [location : {PyStr(<<>>)},
     project_type : {PyStr(Residential), PyStr(Boligbygging)},
     building_height : {PyInt(0), PyInt(6), PyInt(7), PyInt(8), PyInt(9)},
     residential_units : {PyInt(0), PyInt(50), PyInt(51), PyInt(100), PyInt(101)},
     parking_spaces : {PyInt(0), PyInt(80), PyInt(81)},
     construction_duration : {PyInt(1), PyInt(24), PyInt(25)},
     requires_zoning_change : {PyBool(FALSE)},
     environmental_impact : PyBools,
     heritage_area : {PyBool(FALSE)},
     zone_type : {PyStr(<<>>)},
     nearby_features : {PyStr(<<>>)},
     nearby_roads : {PyStr(<<>>)},
     complex_foundation : {PyBool(FALSE)},
     innovative_design : {PyBool(FALSE)},
     tight_site : {PyBool(FALSE)}]

\* every condition met
AllMetProject ==
    [location |-> PyStr(naturomraade),
     project_type |-> PyStr(Residential),
     building_height |-> PyInt(9),
     residential_units |-> PyInt(101),
     parking_spaces |-> PyInt(0),
     construction_duration |-> PyInt(25),
     requires_zoning_change |-> PyBool(TRUE),
     environmental_impact |-> PyBool(TRUE),
     heritage_area |-> PyBool(TRUE),
     zone_type |-> PyStr(boligomraade),
     nearby_features |-> PyStr(vannomraade),
     nearby_roads |-> PyStr(hovedvei),
     complex_foundation |-> PyBool(TRUE),
     innovative_design |-> PyBool(TRUE),
     tight_site |-> PyBool(TRUE)]

DefaultProject == [key \in Fields |-> DefaultOf(key)]

Restrict(project_data, keys) == [key \in keys |-> project_data[key]]

SmallFieldSets == {S \in SUBSET Fields : Cardinality(S) <= MaxAbsent}

\* AllMetProject with a few fields absent, or with only a few fields present
AbsentProjects ==
    {Restrict(AllMetProject, Fields \ S) : S \in SmallFieldSets \ {{}}}
        \cup {Restrict(AllMetProject, S) : S \in SmallFieldSets}

\* values of the wrong type for a text or number field
WrongValues(key) ==
    IF key \in TextFields THEN {PyNone, PyInt(5)} ELSE {PyNone, PyStr(<<"x">>)}

\* one text or number field present but type-mismatched
MistypedProjects ==
    {[base EXCEPT ![key] = v] :
        <<base, key, v>> \in
            {t \in {AllMetProject, Completed(DefaultProject)}
                       \X (TextFields \cup NumberFields)
                       \X {PyNone, PyInt(5), PyStr(<<"x">>)} :
                t[3] \in WrongValues(t[2])}}

\* no condition met: numbers 0 or absent, flags unset, texts without a marker
ZeroRiskProjects ==
    {Restrict([DefaultProject EXCEPT !.location = texts[1],
                                     !.nearby_features = texts[2],
                                     !.nearby_roads = texts[3],
                                     !.zone_type = texts[4]], Fields \ absent) :
        <<texts, absent>> \in
            ({PyStr(<<>>), PyStr(LocationMiss)} \X {PyStr(<<>>), PyStr(FeaturesMiss)}
                \X {PyStr(<<>>), PyStr(RoadsMiss)} \X {PyStr(<<>>), PyStr(ZoneMiss)})
            \X SUBSET NumberFields}

ProjectInputs ==
    ConditionProjects \cup BoundaryProjects \cup AbsentProjects \cup MistypedProjects
        \cup ZeroRiskProjects

(***************************************************************************)
(* The assessment of one project description: the four calls of            *)
(* render_project_analysis, in its order.  An exception ends the handler.  *)
(***************************************************************************)
VARIABLES
    project_data,            \* the project description under assessment
    pc,                      \* the call that runs next
    risk_analysis,           \* <<>> or <<result of analyze_project_risk>>
    stakeholders,            \* result of identify_stakeholders
    timeline,                \* result of generate_timeline
    regulatory_reqs,         \* result of get_regulatory_requirements
    regulatory_compliance,   \* rows of the table regulatory_compliance
    error,                   \* the exception that ended the handler, or ""
    other,                   \* the assessment of a concurrent session, or <<>>
    db_path,                 \* the path an OsloPlanningPremium is constructed on
    premium_db,              \* table name -> rows, for the tables
                             \* of the database at db_path
    threads,                 \* the threads working on db_path
    returned,                \* the last call of a query or fetch and its result
    clock,                   \* time.time(), in ticks
    web_fetcher,             \* the fields of the global WebFetcher
    http_log,                \* the times at which session.get was called
    session_state            \* st.session_state of the analysis portal

vars ==
    <<project_data, pc, risk_analysis, stakeholders, timeline, regulatory_reqs,
      regulatory_compliance, error, other, db_path, premium_db, threads,
      returned, clock, web_fetcher, http_log, session_state>>

\* what the assessment of this session never touches
outside ==
    <<other, db_path, premium_db, threads, returned, clock, web_fetcher,
      http_log, session_state>>

\* no concurrent session, no OsloPlanningPremium under construction
OutsideIdle ==
    /\ other = <<>>
    /\ db_path = ""
    /\ premium_db = <<>>
    /\ threads = <<>>
    /\ returned = <<>>
    /\ clock = 0
    /\ web_fetcher = <<>>
    /\ http_log = <<>>
    /\ session_state = <<>>

Init ==
    /\ project_data \in ProjectInputs
    /\ pc = "analyze_project_risk"
    /\ risk_analysis = <<>>
    /\ stakeholders = <<>>
    /\ timeline = <<>>
    /\ regulatory_reqs = <<>>
    /\ regulatory_compliance = populate_regulatory_data(<<>>)
    /\ error = ""
    /\ OutsideIdle

AnalyzeProjectRisk ==
    /\ pc = "analyze_project_risk"
    /\ \E res \in {analyze_project_risk(project_data)} :
           IF res.err # ""
           THEN /\ error' = res.err
                /\ pc' = "raised"
                /\ UNCHANGED risk_analysis
           ELSE /\ risk_analysis' = <<res.val>>
                /\ pc' = "identify_stakeholders"
                /\ UNCHANGED error
    /\ UNCHANGED <<project_data, stakeholders, timeline, regulatory_reqs,
                   regulatory_compliance, outside>>

IdentifyStakeholders ==
    /\ pc = "identify_stakeholders"
    /\ \E res \in {identify_stakeholders(project_data)} :
           IF res.err # ""
           THEN /\ error' = res.err
                /\ pc' = "raised"
                /\ UNCHANGED stakeholders
           ELSE /\ stakeholders' = res.val
                /\ pc' = "generate_timeline"
                /\ UNCHANGED error
    /\ UNCHANGED <<project_data, risk_analysis, timeline, regulatory_reqs,
                   regulatory_compliance, outside>>

GenerateTimeline ==
    /\ pc = "generate_timeline"
    /\ timeline' = generate_timeline(project_data, risk_analysis[1])
    /\ pc' = "get_regulatory_requirements"
    /\ UNCHANGED <<project_data, risk_analysis, stakeholders, regulatory_reqs,
                   regulatory_compliance, error, outside>>

\* mutant: the filter also deletes the rows that are not applicable
GetRegulatoryRequirementsDeleting ==
    /\ pc = "get_regulatory_requirements"
    /\ \E res \in {get_regulatory_requirements(regulatory_compliance, project_data)} :
           IF res.err # ""
           THEN /\ error' = res.err
                /\ pc' = "raised"
                /\ UNCHANGED <<regulatory_reqs, regulatory_compliance>>
           ELSE /\ regulatory_reqs' = res.val
                /\ regulatory_compliance' = res.val
                /\ pc' = "done"
                /\ UNCHANGED error
    /\ UNCHANGED <<project_data, risk_analysis, stakeholders, timeline, outside>>

GetRegulatoryRequirements ==
    /\ pc = "get_regulatory_requirements"
    /\ \E res \in {get_regulatory_requirements(regulatory_compliance, project_data)} :
           IF res.err # ""
           THEN /\ error' = res.err
                /\ pc' = "raised"
                /\ UNCHANGED regulatory_reqs
           ELSE /\ regulatory_reqs' = res.val
                /\ pc' = "done"
                /\ UNCHANGED error
    /\ UNCHANGED <<project_data, risk_analysis, stakeholders, timeline,
                   regulatory_compliance, outside>>

Next ==
    \/ AnalyzeProjectRisk
    \/ IdentifyStakeholders
    \/ GenerateTimeline
    \/ GetRegulatoryRequirements

Spec == Init /\ [][Next]_vars

(***************************************************************************)
(* The regulation catalog over the life of a database file: every session  *)
(* constructs an OsloAIPlanningSystem on the same path (lines 457-458),    *)
(* and get_regulatory_requirements reads the table on every call.  The     *)
(* file may hold rows before the first construction.  pc records the last  *)
(* operation: "constructed", "called", or "called_again" for a call that   *)
(* directly follows a call.                                                *)
(***************************************************************************)
\* at most MaxPreexisting rows are in the table before the first construction
MaxPreexisting == 1
\* at most MaxConstructions systems are constructed on the path
MaxConstructions == 2

\* records other than the seeded ones: a conditional and an optional record
\* with names no rule mentions, and records carrying the two names with a rule
PreexistingRecords ==
    {[regulation_name |-> name, regulation_type |-> "Lov", description |-> "",
      compliance_status |-> status, required_documents |-> "",
      deadline_days |-> 30, priority_level |-> 3] :
        <<name, status>> \in {<<"Kulturminneloven", "conditional">>,
                              <<"Veileder for uterom", "optional">>,
                              <<"Naturmangfoldloven", "conditional">>,
                              <<"Forurensningsloven", "mandatory">>}}

\* the tables of at most MaxPreexisting such rows, ids in insertion order
PreexistingCatalogs ==
    UNION {{[i \in 1..k |-> InsertedRow(rows[i], i - 1)] :
               rows \in [1..k -> PreexistingRecords]} : k \in 0..MaxPreexisting}

\* project descriptions that differ in what the filter reads
CatalogProjects ==
    {<<>>} \cup
    [environmental_impact : PyBools,
     project_type : {PyStr(Residential), PyStr(Boligbygging)},
     residential_units : {PyInt(100), PyInt(101), PyNone}]

InitCatalog ==
    /\ project_data \in CatalogProjects
    /\ pc = "constructed"
    /\ risk_analysis = <<>>
    /\ stakeholders = <<>>
    /\ timeline = <<>>
    /\ regulatory_reqs = <<>>
    /\ regulatory_compliance \in
           {populate_regulatory_data(table) : table \in PreexistingCatalogs}
    /\ error = ""
    /\ OutsideIdle

\* OsloAIPlanningSystem(): init_ai_database, then populate_regulatory_data
ConstructSystem ==
    /\ pc \in {"constructed", "called", "called_again"}
    /\ Len(regulatory_compliance)
           < MaxPreexisting + MaxConstructions * Len(regulations)
    /\ regulatory_compliance' = populate_regulatory_data(regulatory_compliance)
    /\ pc' = "constructed"
    /\ UNCHANGED <<project_data, risk_analysis, stakeholders, timeline,
                   regulatory_reqs, error, outside>>

\* mutant: applicable_reqs is kept from call to call
CallRegulatoryRequirementsAccumulating ==
    /\ pc \in {"constructed", "called", "called_again"}
    /\ Len(regulatory_reqs) <= Len(regulatory_compliance)
    /\ \E res \in {get_regulatory_requirements(regulatory_compliance, project_data)} :
           IF res.err # ""
           THEN /\ error' = res.err
                /\ pc' = "raised"
                /\ UNCHANGED regulatory_reqs
           ELSE /\ regulatory_reqs' = regulatory_reqs \o res.val
                /\ pc' = IF pc = "constructed" THEN "called" ELSE "called_again"
                /\ UNCHANGED error
    /\ UNCHANGED <<project_data, risk_analysis, stakeholders, timeline,
                   regulatory_compliance, outside>>

\* get_regulatory_requirements(project_data) on any of the systems
CallRegulatoryRequirements ==
    /\ pc \in {"constructed", "called", "called_again"}
    /\ \E res \in {get_regulatory_requirements(regulatory_compliance, project_data)} :
           IF res.err # ""
           THEN /\ error' = res.err
                /\ pc' = "raised"
                /\ UNCHANGED regulatory_reqs
           ELSE /\ regulatory_reqs' = res.val
                /\ pc' = IF pc = "constructed" THEN "called" ELSE "called_again"
                /\ UNCHANGED error
    /\ UNCHANGED <<project_data, risk_analysis, stakeholders, timeline,
                   regulatory_compliance, outside>>

NextCatalog ==
    \/ ConstructSystem
    \/ CallRegulatoryRequirements

SpecCatalog == InitCatalog /\ [][NextCatalog]_vars

(***************************************************************************)
(* Two assessments at once: a second session runs the same four calls on   *)
(* its own project description, against the same database file.  Each      *)
(* session keeps its results in its own session state (lines 551-564);     *)
(* `other` holds those of the second session.  The systems were            *)
(* constructed before (one shared, or one per session).                    *)
(***************************************************************************)
ConcurrentProjects ==
    {DefaultProject, AllMetProject, Restrict(AllMetProject, {}),
     [DefaultProject EXCEPT !.environmental_impact = PyBool(TRUE)],
     [AllMetProject EXCEPT !.residential_units = PyNone]}

InitConcurrent ==
    /\ project_data \in ConcurrentProjects
    /\ pc = "analyze_project_risk"
    /\ risk_analysis = <<>>
    /\ stakeholders = <<>>
    /\ timeline = <<>>
    /\ regulatory_reqs = <<>>
    /\ regulatory_compliance \in
           {populate_regulatory_data(<<>>),
            populate_regulatory_data(populate_regulatory_data(<<>>))}
    /\ error = ""
    /\ other \in [project_data : ConcurrentProjects,
                  pc : {"analyze_project_risk"},
                  risk_analysis : {<<>>},
                  stakeholders : {<<>>},
                  timeline : {<<>>},
                  regulatory_reqs : {<<>>},
                  error : {""}]
    /\ db_path = ""
    /\ premium_db = <<>>
    /\ threads = <<>>
    /\ returned = <<>>
    /\ clock = 0
    /\ web_fetcher = <<>>
    /\ http_log = <<>>
    /\ session_state = <<>>

\* the next call of the second session's assessment
OtherAssessmentStep ==
    /\ \/ /\ other.pc = "analyze_project_risk"
          /\ \E res \in {analyze_project_risk(other.project_data)} :
                 other' = IF res.err # ""
                          THEN [other EXCEPT !.error = res.err, !.pc = "raised"]
                          ELSE [other EXCEPT !.risk_analysis = <<res.val>>,
                                             !.pc = "identify_stakeholders"]
       \/ /\ other.pc = "identify_stakeholders"
          /\ \E res \in {identify_stakeholders(other.project_data)} :
                 other' = IF res.err # ""
                          THEN [other EXCEPT !.error = res.err, !.pc = "raised"]
                          ELSE [other EXCEPT !.stakeholders = res.val,
                                             !.pc = "generate_timeline"]
       \/ /\ other.pc = "generate_timeline"
          /\ other' = [other EXCEPT
                          !.timeline = generate_timeline(other.project_data,
                                                         other.risk_analysis[1]),
                          !.pc = "get_regulatory_requirements"]
       \/ /\ other.pc = "get_regulatory_requirements"
          /\ \E res \in {get_regulatory_requirements(regulatory_compliance,
                                                     other.project_data)} :
                 other' = IF res.err # ""
                          THEN [other EXCEPT !.error = res.err, !.pc = "raised"]
                          ELSE [other EXCEPT !.regulatory_reqs = res.val,
                                             !.pc = "done"]
    /\ UNCHANGED <<project_data, pc, risk_analysis, stakeholders, timeline,
                   regulatory_reqs, regulatory_compliance, error, db_path,
                   premium_db, threads, returned, clock, web_fetcher,
                   http_log, session_state>>

NextConcurrent ==
    \/ AnalyzeProjectRisk
    \/ IdentifyStakeholders
    \/ GenerateTimeline
    \/ GetRegulatoryRequirements
    \/ OtherAssessmentStep

SpecConcurrent == InitConcurrent /\ [][NextConcurrent]_vars

(***************************************************************************)
(* The document catalogue of OsloPlanningPremium.  A text is the sequence  *)
(* of its characters.  Of the columns of a document, the ones a query or   *)
(* a constraint reads are kept: id, title, category, description,          *)
(* priority, tags and document_hash; of a category, category_name and      *)
(* display_order.                                                          *)
(***************************************************************************)
\* the list verified_documents of insert_verified_documents
verified_documents ==
    <<
      [title |->
          <<"K", "o", "m", "m", "u", "n", "e", "p", "l", "a", "n", " ", "f",
            "o", "r", " ", "O", "s", "l", "o", " ", "2", "0", "2", "0", "-",
            "2", "0", "3", "5">>,
       category |->
          <<"K", "o", "m", "m", "u", "n", "e", "p", "l", "a", "n">>,
       description |->
          <<"O", "v", "e", "r", "o", "r", "d", "n", "e", "t", " ", "p", "l",
            "a", "n", " ", "s", "o", "m", " ", "v", "i", "s", "e", "r", " ",
            "h", "o", "v", "e", "d", "t", "r", "e", "k", "k", "e", "n", "e",
            " ", "i", " ", "d", "e", "n", " ", "f", "y", "s", "i", "s", "k",
            "e", ",", " ", "m", "i", "l", "j", "ø", "m", "e", "s", "s", "i",
            "g", "e", ",", " ", "s", "o", "s", "i", "a", "l", "e", " ", "o",
            "g", " ", "k", "u", "l", "t", "u", "r", "e", "l", "l", "e", " ",
            "u", "t", "v", "i", "k", "l", "i", "n", "g", "e", "n", " ", "i",
            " ", "O", "s", "l", "o", " ", "f", "r", "e", "m", " ", "t", "i",
            "l", " ", "2", "0", "3", "5", ".">>,
       priority |-> 3,
       tags |->
          <<"k", "o", "m", "m", "u", "n", "e", "p", "l", "a", "n", ",", "o",
            "v", "e", "r", "o", "r", "d", "n", "e", "t", ",", "b", "y", "u",
            "t", "v", "i", "k", "l", "i", "n", "g", ",", "2", "0", "3", "5",
            ",", "h", "o", "v", "e", "d", "p", "l", "a", "n">>],
      [title |->
          <<"K", "o", "m", "m", "u", "n", "e", "p", "l", "a", "n", "e", "n",
            "s", " ", "a", "r", "e", "a", "l", "d", "e", "l", " ", "2", "0",
            "2", "0">>,
       category |->
          <<"K", "o", "m", "m", "u", "n", "e", "p", "l", "a", "n">>,
       description |->
          <<"J", "u", "r", "i", "d", "i", "s", "k", " ", "b", "i", "n", "d",
            "e", "n", "d", "e", " ", "a", "r", "e", "a", "l", "d", "e", "l",
            " ", "s", "o", "m", " ", "s", "t", "y", "r", "e", "r", " ", "a",
            "r", "e", "a", "l", "b", "r", "u", "k", "e", "n", " ", "i", " ",
            "O", "s", "l", "o", " ", "o", "g", " ", "d", "a", "n", "n", "e",
            "r", " ", "g", "r", "u", "n", "n", "l", "a", "g", " ", "f", "o",
            "r", " ", "d", "e", "t", "a", "l", "j", "e", "r", "t", "e", " ",
            "r", "e", "g", "u", "l", "e", "r", "i", "n", "g", "s", "p", "l",
            "a", "n", "e", "r", ".">>,
       priority |-> 3,
       tags |->
          <<"a", "r", "e", "a", "l", "d", "e", "l", ",", "j", "u", "r", "i",
            "d", "i", "s", "k", ",", "a", "r", "e", "a", "l", "b", "r", "u",
            "k", ",", "r", "e", "g", "u", "l", "e", "r", "i", "n", "g">>],
      [title |->
          <<"K", "o", "m", "m", "u", "n", "e", "d", "e", "l", "p", "l", "a",
            "n", " ", "f", "o", "r", " ", "k", "l", "i", "m", "a", " ", "o",
            "g", " ", "e", "n", "e", "r", "g", "i", " ", "2", "0", "2", "0",
            "-", "2", "0", "3", "0">>,
       category |->
          <<"K", "o", "m", "m", "u", "n", "e", "p", "l", "a", "n">>,
       description |->
          <<"S", "t", "r", "a", "t", "e", "g", "i", "s", "k", " ", "p", "l",
            "a", "n", " ", "f", "o", "r", " ", "k", "l", "i", "m", "a", "t",
            "i", "l", "t", "a", "k", " ", "o", "g", " ", "e", "n", "e", "r",
            "g", "i", "o", "m", "s", "t", "i", "l", "l", "i", "n", "g", " ",
            "m", "e", "d", " ", "m", "å", "l", " ", "o", "m", " ", "k", "l",
            "i", "m", "a", "n", "ø", "y", "t", "r", "a", "l", "i", "t", "e",
            "t", " ", "i", "n", "n", "e", "n", " ", "2", "0", "3", "0", ".">>,
       priority |-> 3,
       tags |->
          <<"k", "l", "i", "m", "a", ",", "e", "n", "e", "r", "g", "i", ",",
            "b", "æ", "r", "e", "k", "r", "a", "f", "t", ",", "u", "t", "s",
            "l", "i", "p", "p", ",", "k", "l", "i", "m", "a", "n", "ø", "y",
            "t", "r", "a", "l">>],
      [title |->
          <<"F", "j", "o", "r", "d", "b", "y", "e", "n", " ", "-", " ", "h",
            "e", "l", "h", "e", "t", "l", "i", "g", " ", "u", "t", "v", "i",
            "k", "l", "i", "n", "g", "s", "s", "t", "r", "a", "t", "e", "g",
            "i">>,
       category |->
          <<"B", "y", "u", "t", "v", "i", "k", "l", "i", "n", "g">>,
       description |->
          <<"O", "m", "f", "a", "t", "t", "e", "n", "d", "e", " ", "u", "t",
            "v", "i", "k", "l", "i", "n", "g", "s", "s", "t", "r", "a", "t",
            "e", "g", "i", " ", "f", "o", "r", " ", "O", "s", "l", "o", "s",
            " ", "s", "j", "ø", "f", "r", "o", "n", "t", " ", "f", "r", "a",
            " ", "F", "r", "o", "g", "n", "e", "r", "k", "i", "l", "e", "n",
            " ", "t", "i", "l", " ", "B", "e", "k", "k", "e", "l", "a", "g",
            "e", "t", ",", " ", "m", "e", "d", " ", "f", "o", "k", "u", "s",
            " ", "p", "å", " ", "b", "æ", "r", "e", "k", "r", "a", "f", "t",
            "i", "g", " ", "b", "y", "u", "t", "v", "i", "k", "l", "i", "n",
            "g", ".">>,
       priority |-> 3,
       tags |->
          <<"f", "j", "o", "r", "d", "b", "y", "e", "n", ",", "v", "a", "n",
            "n", "f", "r", "o", "n", "t", ",", "b", "y", "u", "t", "v", "i",
            "k", "l", "i", "n", "g", ",", "s", "j", "ø", "f", "r", "o", "n",
            "t", ",", "b", "æ", "r", "e", "k", "r", "a", "f", "t">>],
      [title |->
          <<"H", "o", "v", "i", "n", "b", "y", "e", "n", " ", "-", " ", "o",
            "m", "r", "å", "d", "e", "r", "e", "g", "u", "l", "e", "r", "i",
            "n", "g">>,
       category |->
          <<"B", "y", "u", "t", "v", "i", "k", "l", "i", "n", "g">>,
       description |->
          <<"P", "l", "a", "n", "l", "e", "g", "g", "i", "n", "g", " ", "a",
            "v", " ", "n", "y", " ", "b", "y", "d", "e", "l", " ", "p", "å",
            " ", "G", "r", "o", "r", "u", "d", " ", "m", "e", "d", " ", "b",
            "o", "l", "i", "g", ",", " ", "n", "æ", "r", "i", "n", "g", " ",
            "o", "g", " ", "g", "r", "ø", "n", "t", "o", "m", "r", "å", "d",
            "e", "r", ",", " ", "k", "n", "y", "t", "t", "e", "t", " ", "t",
            "i", "l", " ", "n", "y", " ", "T", "-", "b", "a", "n", "e", "s",
            "t", "a", "s", "j", "o", "n", ".">>,
       priority |-> 3,
       tags |->
          <<"h", "o", "v", "i", "n", "b", "y", "e", "n", ",", "g", "r", "o",
            "r", "u", "d", ",", "n", "y", "_", "b", "y", "d", "e", "l", ",",
            "t", "b", "a", "n", "e", "f", "o", "r", "b", "i", "n", "d", "e",
            "l", "s", "e">>],
      [title |->
          <<"B", "o", "l", "i", "g", "s", "t", "r", "a", "t", "e", "g", "i",
            " ", "2", "0", "2", "0", "-", "2", "0", "3", "0">>,
       category |->
          <<"B", "y", "u", "t", "v", "i", "k", "l", "i", "n", "g">>,
       description |->
          <<"H", "e", "l", "h", "e", "t", "l", "i", "g", " ", "s", "t", "r",
            "a", "t", "e", "g", "i", " ", "f", "o", "r", " ", "b", "o", "l",
            "i", "g", "u", "t", "v", "i", "k", "l", "i", "n", "g", " ", "m",
            "e", "d", " ", "m", "å", "l", " ", "o", "m", " ", "å", " ", "s",
            "i", "k", "r", "e", " ", "g", "o", "d", "e", " ", "b", "o", "l",
            "i", "g", "e", "r", " ", "f", "o", "r", " ", "a", "l", "l", "e",
            " ", "i", "n", "n", "t", "e", "k", "t", "s", "g", "r", "u", "p",
            "p", "e", "r", ".">>,
       priority |-> 2,
       tags |->
          <<"b", "o", "l", "i", "g", ",", "s", "t", "r", "a", "t", "e", "g",
            "i", ",", "r", "i", "m", "e", "l", "i", "g", "e", "_", "b", "o",
            "l", "i", "g", "e", "r", ",", "b", "o", "l", "i", "g", "p", "o",
            "l", "i", "t", "i", "k", "k">>],
      [title |->
          <<"B", "y", "m", "i", "l", "j", "ø", "p", "a", "k", "k", "e", " ",
            "3", " ", "-", " ", "O", "s", "l", "o", " ", "o", "g", " ", "A",
            "k", "e", "r", "s", "h", "u", "s">>,
       category |->
          <<"T", "r", "a", "n", "s", "p", "o", "r", "t">>,
       description |->
          <<"O", "m", "f", "a", "t", "t", "e", "n", "d", "e", " ", "s", "a",
            "t", "s", "i", "n", "g", " ", "p", "å", " ", "k", "o", "l", "l",
            "e", "k", "t", "i", "v", "t", "r", "a", "n", "s", "p", "o", "r",
            "t", ",", " ", "s", "y", "k", "k", "e", "l", " ", "o", "g", " ",
            "g", "a", "n", "g", "e", " ", "f", "o", "r", " ", "å", " ", "r",
            "e", "d", "u", "s", "e", "r", "e", " ", "b", "i", "l", "t", "r",
            "a", "f", "i", "k", "k", " ", "o", "g", " ", "k", "l", "i", "m",
            "a", "u", "t", "s", "l", "i", "p", "p", ".">>,
       priority |-> 2,
       tags |->
          <<"k", "o", "l", "l", "e", "k", "t", "i", "v", ",", "t", "r", "a",
            "n", "s", "p", "o", "r", "t", ",", "b", "y", "m", "i", "l", "j",
            "ø", ",", "k", "l", "i", "m", "a", "t", "i", "l", "t", "a", "k">>],
      [title |->
          <<"S", "y", "k", "k", "e", "l", "v", "e", "i", "p", "l", "a", "n",
            " ", "2", "0", "1", "5", "-", "2", "0", "2", "5">>,
       category |->
          <<"T", "r", "a", "n", "s", "p", "o", "r", "t">>,
       description |->
          <<"P", "l", "a", "n", " ", "f", "o", "r", " ", "u", "t", "b", "y",
            "g", "g", "i", "n", "g", " ", "a", "v", " ", "s", "a", "m", "m",
            "e", "n", "h", "e", "n", "g", "e", "n", "d", "e", " ", "o", "g",
            " ", "t", "r", "y", "g", "t", " ", "s", "y", "k", "k", "e", "l",
            "v", "e", "i", "s", "y", "s", "t", "e", "m", " ", "i", " ", "h",
            "e", "l", "e", " ", "O", "s", "l", "o", ".">>,
       priority |-> 2,
       tags |->
          <<"s", "y", "k", "k", "e", "l", ",", "s", "y", "k", "k", "e", "l",
            "v", "e", "i", "e", "r", ",", "t", "r", "a", "n", "s", "p", "o",
            "r", "t", ",", "m", "i", "l", "j", "ø", ",", "t", "r", "y", "g",
            "g", "h", "e", "t">>],
      [title |->
          <<"S", "k", "o", "l", "e", "b", "e", "h", "o", "v", "s", "p", "l",
            "a", "n", " ", "2", "0", "2", "0", "-", "2", "0", "3", "0">>,
       category |->
          <<"B", "a", "r", "n", " ", "o", "g", " ", "u", "n", "g", "e">>,
       description |->
          <<"L", "a", "n", "g", "s", "i", "k", "t", "i", "g", " ", "p", "l",
            "a", "n", " ", "f", "o", "r", " ", "f", "r", "e", "m", "t", "i",
            "d", "i", "g", " ", "s", "k", "o", "l", "e", "b", "e", "h", "o",
            "v", " ", "o", "g", " ", "k", "a", "p", "a", "s", "i", "t", "e",
            "t", " ", "b", "a", "s", "e", "r", "t", " ", "p", "å", " ", "b",
            "e", "f", "o", "l", "k", "n", "i", "n", "g", "s", "v", "e", "k",
            "s", "t", " ", "o", "g", " ", "u", "t", "b", "y", "g", "g", "i",
            "n", "g", "s", "p", "l", "a", "n", "e", "r", ".">>,
       priority |-> 2,
       tags |->
          <<"s", "k", "o", "l", "e", ",", "k", "a", "p", "a", "s", "i", "t",
            "e", "t", ",", "u", "t", "b", "y", "g", "g", "i", "n", "g", ",",
            "g", "r", "u", "n", "n", "s", "k", "o", "l", "e", ",", "e", "l",
            "e", "v", "t", "a", "l", "l">>],
      [title |->
          <<"B", "a", "r", "n", "e", "h", "a", "g", "e", "p", "l", "a", "n",
            " ", "2", "0", "2", "0", "-", "2", "0", "3", "0">>,
       category |->
          <<"B", "a", "r", "n", " ", "o", "g", " ", "u", "n", "g", "e">>,
       description |->
          <<"P", "l", "a", "n", " ", "f", "o", "r", " ", "b", "a", "r", "n",
            "e", "h", "a", "g", "e", "u", "t", "b", "y", "g", "g", "i", "n",
            "g", " ", "o", "g", " ", "k", "v", "a", "l", "i", "t", "e", "t",
            "s", "u", "t", "v", "i", "k", "l", "i", "n", "g", " ", "m", "e",
            "d", " ", "f", "u", "l", "l", " ", "d", "e", "k", "n", "i", "n",
            "g", " ", "s", "o", "m", " ", "h", "o", "v", "e", "d", "m", "å",
            "l", ".">>,
       priority |-> 2,
       tags |->
          <<"b", "a", "r", "n", "e", "h", "a", "g", "e", ",", "u", "t", "b",
            "y", "g", "g", "i", "n", "g", ",", "k", "v", "a", "l", "i", "t",
            "e", "t", ",", "b", "a", "r", "n", ",", "f", "u", "l", "l", "_",
            "d", "e", "k", "n", "i", "n", "g">>],
      [title |->
          <<"S", "t", "r", "a", "t", "e", "g", "i", " ", "f", "o", "r", " ",
            "t", "i", "d", "l", "i", "g", " ", "i", "n", "n", "s", "a", "t",
            "s", " ", "2", "0", "2", "0", "-", "2", "0", "2", "5">>,
       category |->
          <<"B", "a", "r", "n", " ", "o", "g", " ", "u", "n", "g", "e">>,
       description |->
          <<"T", "v", "e", "r", "r", "s", "e", "k", "t", "o", "r", "i", "e",
            "l", "l", " ", "s", "t", "r", "a", "t", "e", "g", "i", " ", "f",
            "o", "r", " ", "f", "o", "r", "e", "b", "y", "g", "g", "e", "n",
            "d", "e", " ", "a", "r", "b", "e", "i", "d", " ", "o", "g", " ",
            "t", "i", "d", "l", "i", "g", " ", "i", "n", "n", "g", "r", "i",
            "p", "e", "n", " ", "o", "v", "e", "r", "f", "o", "r", " ", "b",
            "a", "r", "n", " ", "o", "g", " ", "u", "n", "g", "e", ".">>,
       priority |-> 2,
       tags |->
          <<"t", "i", "d", "l", "i", "g", "_", "i", "n", "n", "s", "a", "t",
            "s", ",", "f", "o", "r", "e", "b", "y", "g", "g", "i", "n", "g",
            ",", "b", "a", "r", "n", ",", "u", "n", "g", "e", ",", "t", "v",
            "e", "r", "r", "s", "e", "k", "t", "o", "r", "i", "e", "l", "l">>],
      [title |->
          <<"K", "l", "i", "m", "a", "b", "u", "d", "s", "j", "e", "t", "t",
            " ", "2", "0", "2", "3">>,
       category |->
          <<"K", "l", "i", "m", "a", " ", "o", "g", " ", "m", "i", "l", "j",
            "ø">>,
       description |->
          <<"Å", "r", "l", "i", "g", " ", "k", "l", "i", "m", "a", "b", "u",
            "d", "s", "j", "e", "t", "t", " ", "s", "o", "m", " ", "v", "i",
            "s", "e", "r", " ", "k", "l", "i", "m", "a", "g", "a", "s", "s",
            "u", "t", "s", "l", "i", "p", "p", ",", " ", "m", "å", "l", " ",
            "o", "g", " ", "k", "o", "n", "k", "r", "e", "t", "e", " ", "t",
            "i", "l", "t", "a", "k", " ", "f", "o", "r", " ", "u", "t", "s",
            "l", "i", "p", "p", "s", "r", "e", "d", "u", "k", "s", "j", "o",
            "n", ".">>,
       priority |-> 2,
       tags |->
          <<"k", "l", "i", "m", "a", ",", "b", "u", "d", "s", "j", "e", "t",
            "t", ",", "u", "t", "s", "l", "i", "p", "p", ",", "t", "i", "l",
            "t", "a", "k", ",", "m", "å", "l", "i", "n", "g">>],
      [title |->
          <<"H", "a", "n", "d", "l", "i", "n", "g", "s", "p", "l", "a", "n",
            " ", "f", "o", "r", " ", "k", "l", "i", "m", "a", "t", "i", "l",
            "p", "a", "s", "n", "i", "n", "g">>,
       category |->
          <<"K", "l", "i", "m", "a", " ", "o", "g", " ", "m", "i", "l", "j",
            "ø">>,
       description |->
          <<"P", "l", "a", "n", " ", "f", "o", "r", " ", "t", "i", "l", "p",
            "a", "s", "n", "i", "n", "g", " ", "t", "i", "l", " ", "k", "l",
            "i", "m", "a", "e", "n", "d", "r", "i", "n", "g", "e", "r", " ",
            "m", "e", "d", " ", "f", "o", "k", "u", "s", " ", "p", "å", " ",
            "o", "v", "e", "r", "v", "a", "n", "n", ",", " ", "f", "l", "o",
            "m", " ", "o", "g", " ", "e", "k", "s", "t", "r", "e", "m", "v",
            "æ", "r", ".">>,
       priority |-> 2,
       tags |->
          <<"k", "l", "i", "m", "a", "t", "i", "l", "p", "a", "s", "n", "i",
            "n", "g", ",", "o", "v", "e", "r", "v", "a", "n", "n", ",", "f",
            "l", "o", "m", ",", "e", "k", "s", "t", "r", "e", "m", "v", "æ",
            "r", ",", "r", "e", "s", "i", "l", "i", "e", "n", "s">>],
      [title |->
          <<"A", "v", "f", "a", "l", "l", "s", "p", "l", "a", "n", " ", "2",
            "0", "2", "0", "-", "2", "0", "3", "5">>,
       category |->
          <<"K", "l", "i", "m", "a", " ", "o", "g", " ", "m", "i", "l", "j",
            "ø">>,
       description |->
          <<"L", "a", "n", "g", "s", "i", "k", "t", "i", "g", " ", "p", "l",
            "a", "n", " ", "f", "o", "r", " ", "b", "æ", "r", "e", "k", "r",
            "a", "f", "t", "i", "g", " ", "a", "v", "f", "a", "l", "l", "s",
            "h", "å", "n", "d", "t", "e", "r", "i", "n", "g", " ", "o", "g",
            " ", "s", "i", "r", "k", "u", "l", "æ", "r", " ", "ø", "k", "o",
            "n", "o", "m", "i", ".">>,
       priority |-> 2,
       tags |->
          <<"a", "v", "f", "a", "l", "l", ",", "r", "e", "s", "i", "r", "k",
            "u", "l", "e", "r", "i", "n", "g", ",", "s", "i", "r", "k", "u",
            "l", "æ", "r", "_", "ø", "k", "o", "n", "o", "m", "i", ",", "b",
            "æ", "r", "e", "k", "r", "a", "f", "t">>],
      [title |->
          <<"F", "o", "l", "k", "e", "h", "e", "l", "s", "e", "p", "l", "a",
            "n", " ", "2", "0", "1", "9", "-", "2", "0", "3", "0">>,
       category |->
          <<"H", "e", "l", "s", "e", " ", "o", "g", " ", "v", "e", "l", "f",
            "e", "r", "d">>,
       description |->
          <<"O", "v", "e", "r", "o", "r", "d", "n", "e", "t", " ", "p", "l",
            "a", "n", " ", "f", "o", "r", " ", "f", "o", "l", "k", "e", "h",
            "e", "l", "s", "e", "a", "r", "b", "e", "i", "d", " ", "m", "e",
            "d", " ", "f", "o", "k", "u", "s", " ", "p", "å", " ", "å", " ",
            "r", "e", "d", "u", "s", "e", "r", "e", " ", "s", "o", "s", "i",
            "a", "l", " ", "u", "l", "i", "k", "h", "e", "t", " ", "i", " ",
            "h", "e", "l", "s", "e", ".">>,
       priority |-> 2,
       tags |->
          <<"f", "o", "l", "k", "e", "h", "e", "l", "s", "e", ",", "s", "o",
            "s", "i", "a", "l", "_", "u", "l", "i", "k", "h", "e", "t", ",",
            "f", "o", "r", "e", "b", "y", "g", "g", "i", "n", "g", ",", "l",
            "e", "v", "e", "k", "å", "r">>],
      [title |->
          <<"S", "t", "r", "a", "t", "e", "g", "i", " ", "m", "o", "t", " ",
            "f", "a", "t", "t", "i", "g", "d", "o", "m", " ", "2", "0", "2",
            "0", "-", "2", "0", "3", "0">>,
       category |->
          <<"H", "e", "l", "s", "e", " ", "o", "g", " ", "v", "e", "l", "f",
            "e", "r", "d">>,
       description |->
          <<"H", "e", "l", "h", "e", "t", "l", "i", "g", " ", "s", "t", "r",
            "a", "t", "e", "g", "i", " ", "f", "o", "r", " ", "å", " ", "b",
            "e", "k", "j", "e", "m", "p", "e", " ", "f", "a", "t", "t", "i",
            "g", "d", "o", "m", " ", "o", "g", " ", "r", "e", "d", "u", "s",
            "e", "r", "e", " ", "s", "o", "s", "i", "a", "l", " ", "u", "l",
            "i", "k", "h", "e", "t", " ", "i", " ", "O", "s", "l", "o", ".">>,
       priority |-> 2,
       tags |->
          <<"f", "a", "t", "t", "i", "g", "d", "o", "m", ",", "s", "o", "s",
            "i", "a", "l", "_", "u", "l", "i", "k", "h", "e", "t", ",", "v",
            "e", "l", "f", "e", "r", "d", ",", "i", "n", "k", "l", "u", "d",
            "e", "r", "i", "n", "g">>],
      [title |->
          <<"E", "l", "d", "r", "e", "p", "l", "a", "n", " ", "2", "0", "2",
            "0", "-", "2", "0", "2", "3">>,
       category |->
          <<"H", "e", "l", "s", "e", " ", "o", "g", " ", "v", "e", "l", "f",
            "e", "r", "d">>,
       description |->
          <<"P", "l", "a", "n", " ", "f", "o", "r", " ", "u", "t", "v", "i",
            "k", "l", "i", "n", "g", " ", "a", "v", " ", "e", "l", "d", "r",
            "e", "t", "j", "e", "n", "e", "s", "t", "e", "r", " ", "o", "g",
            " ", "a", "l", "d", "e", "r", "s", "v", "e", "n", "n", "l", "i",
            "g", " ", "s", "a", "m", "f", "u", "n", "n", ".">>,
       priority |-> 2,
       tags |->
          <<"e", "l", "d", "r", "e", ",", "o", "m", "s", "o", "r", "g", ",",
            "e", "l", "d", "r", "e", "t", "j", "e", "n", "e", "s", "t", "e",
            "r", ",", "a", "l", "d", "e", "r", "s", "v", "e", "n", "n", "l",
            "i", "g">>],
      [title |->
          <<"K", "u", "l", "t", "u", "r", "s", "t", "r", "a", "t", "e", "g",
            "i", " ", "2", "0", "1", "9", "-", "2", "0", "3", "0">>,
       category |->
          <<"K", "u", "l", "t", "u", "r", " ", "o", "g", " ", "f", "r", "i",
            "v", "i", "l", "l", "i", "g", "h", "e", "t">>,
       description |->
          <<"H", "e", "l", "h", "e", "t", "l", "i", "g", " ", "s", "t", "r",
            "a", "t", "e", "g", "i", " ", "f", "o", "r", " ", "k", "u", "l",
            "t", "u", "r", "u", "t", "v", "i", "k", "l", "i", "n", "g", " ",
            "o", "g", " ", "s", "t", "y", "r", "k", "i", "n", "g", " ", "a",
            "v", " ", "O", "s", "l", "o", "s", " ", "p", "o", "s", "i", "s",
            "j", "o", "n", " ", "s", "o", "m", " ", "k", "u", "l", "t", "u",
            "r", "h", "o", "v", "e", "d", "s", "t", "a", "d", ".">>,
       priority |-> 1,
       tags |->
          <<"k", "u", "l", "t", "u", "r", ",", "k", "u", "n", "s", "t", ",",
            "k", "u", "l", "t", "u", "r", "l", "i", "v", ",", "k", "r", "e",
            "a", "t", "i", "v", "e", "_", "n", "æ", "r", "i", "n", "g", "e",
            "r">>],
      [title |->
          <<"I", "d", "r", "e", "t", "t", "s", "s", "t", "r", "a", "t", "e",
            "g", "i", " ", "2", "0", "2", "0", "-", "2", "0", "2", "5">>,
       category |->
          <<"K", "u", "l", "t", "u", "r", " ", "o", "g", " ", "f", "r", "i",
            "v", "i", "l", "l", "i", "g", "h", "e", "t">>,
       description |->
          <<"S", "t", "r", "a", "t", "e", "g", "i", " ", "f", "o", "r", " ",
            "u", "t", "v", "i", "k", "l", "i", "n", "g", " ", "a", "v", " ",
            "i", "d", "r", "e", "t", "t", " ", "o", "g", " ", "f", "y", "s",
            "i", "s", "k", " ", "a", "k", "t", "i", "v", "i", "t", "e", "t",
            " ", "f", "o", "r", " ", "a", "l", "l", "e", " ", "a", "l", "d",
            "e", "r", "s", "g", "r", "u", "p", "p", "e", "r", ".">>,
       priority |-> 1,
       tags |->
          <<"i", "d", "r", "e", "t", "t", ",", "f", "y", "s", "i", "s", "k",
            "_", "a", "k", "t", "i", "v", "i", "t", "e", "t", ",", "a", "n",
            "l", "e", "g", "g", ",", "f", "o", "r", "_", "a", "l", "l", "e">>],
      [title |->
          <<"N", "æ", "r", "i", "n", "g", "s", "s", "t", "r", "a", "t", "e",
            "g", "i", " ", "2", "0", "2", "0", "-", "2", "0", "3", "0">>,
       category |->
          <<"N", "æ", "r", "i", "n", "g", " ", "o", "g", " ", "i", "n", "n",
            "o", "v", "a", "s", "j", "o", "n">>,
       description |->
          <<"S", "t", "r", "a", "t", "e", "g", "i", " ", "f", "o", "r", " ",
            "n", "æ", "r", "i", "n", "g", "s", "u", "t", "v", "i", "k", "l",
            "i", "n", "g", " ", "o", "g", " ", "s", "t", "y", "r", "k", "i",
            "n", "g", " ", "a", "v", " ", "O", "s", "l", "o", "s", " ", "k",
            "o", "n", "k", "u", "r", "r", "a", "n", "s", "e", "k", "r", "a",
            "f", "t", ".">>,
       priority |-> 1,
       tags |->
          <<"n", "æ", "r", "i", "n", "g", ",", "i", "n", "n", "o", "v", "a",
            "s", "j", "o", "n", ",", "k", "o", "n", "k", "u", "r", "r", "a",
            "n", "s", "e", "k", "r", "a", "f", "t", ",", "a", "r", "b", "e",
            "i", "d", "s", "p", "l", "a", "s", "s", "e", "r">>],
      [title |->
          <<"D", "i", "g", "i", "t", "a", "l", " ", "a", "g", "e", "n", "d",
            "a", " ", "f", "o", "r", " ", "O", "s", "l", "o", " ", "2", "0",
            "2", "3", "-", "2", "0", "2", "7">>,
       category |->
          <<"N", "æ", "r", "i", "n", "g", " ", "o", "g", " ", "i", "n", "n",
            "o", "v", "a", "s", "j", "o", "n">>,
       description |->
          <<"H", "e", "l", "h", "e", "t", "l", "i", "g", " ", "s", "t", "r",
            "a", "t", "e", "g", "i", " ", "f", "o", "r", " ", "d", "i", "g",
            "i", "t", "a", "l", " ", "t", "r", "a", "n", "s", "f", "o", "r",
            "m", "a", "s", "j", "o", "n", " ", "o", "g", " ", "s", "m", "a",
            "r", "t", " ", "b", "y", "-", "u", "t", "v", "i", "k", "l", "i",
            "n", "g", ".">>,
       priority |-> 1,
       tags |->
          <<"d", "i", "g", "i", "t", "a", "l", "i", "s", "e", "r", "i", "n",
            "g", ",", "s", "m", "a", "r", "t", "_", "b", "y", ",", "t", "e",
            "k", "n", "o", "l", "o", "g", "i", ",", "i", "n", "n", "o", "v",
            "a", "s", "j", "o", "n">>]
    >>

\* the list categories of insert_verified_documents: name and display order
categories ==
    <<
      [category_name |->
          <<"K", "o", "m", "m", "u", "n", "e", "p", "l", "a", "n">>,
       display_order |-> 1],
      [category_name |->
          <<"B", "y", "u", "t", "v", "i", "k", "l", "i", "n", "g">>,
       display_order |-> 2],
      [category_name |->
          <<"T", "r", "a", "n", "s", "p", "o", "r", "t">>,
       display_order |-> 3],
      [category_name |->
          <<"B", "a", "r", "n", " ", "o", "g", " ", "u", "n", "g", "e">>,
       display_order |-> 4],
      [category_name |->
          <<"K", "l", "i", "m", "a", " ", "o", "g", " ", "m", "i", "l", "j",
            "ø">>,
       display_order |-> 5],
      [category_name |->
          <<"H", "e", "l", "s", "e", " ", "o", "g", " ", "v", "e", "l", "f",
            "e", "r", "d">>,
       display_order |-> 6],
      [category_name |->
          <<"K", "u", "l", "t", "u", "r", " ", "o", "g", " ", "f", "r", "i",
            "v", "i", "l", "l", "i", "g", "h", "e", "t">>,
       display_order |-> 7],
      [category_name |->
          <<"N", "æ", "r", "i", "n", "g", " ", "o", "g", " ", "i", "n", "n",
            "o", "v", "a", "s", "j", "o", "n">>,
       display_order |-> 8]
    >>

\* hashlib.md5(text.encode()).hexdigest(), for the texts of the seed lists
md5(text) ==
    CASE text = verified_documents[1].title -> "dc977dc0235278b82228d8b200648aa5"
      [] text = verified_documents[2].title -> "4b0a3155549cca4ab9588c8e00430f42"
      [] text = verified_documents[3].title -> "2adcda8f163b2e7d09e9f8dbaf41e2bf"
      [] text = verified_documents[4].title -> "03411e09bb1f2e64551603d671692576"
      [] text = verified_documents[5].title -> "46df980a445a06a492da3e330af34ccf"
      [] text = verified_documents[6].title -> "5633170eb1629aa2feee12ddcc60d8bd"
      [] text = verified_documents[7].title -> "69f54e0ad4876ee10946363a2cf91553"
      [] text = verified_documents[8].title -> "83070c52a851b32e50cf832f44be20e5"
      [] text = verified_documents[9].title -> "e288d9460752b0fa3bd8208190c9a177"
      [] text = verified_documents[10].title -> "7c935520798a135f6030c632ac27e155"
      [] text = verified_documents[11].title -> "a296d8592e519e4ab547278ba656c53a"
      [] text = verified_documents[12].title -> "406d8c80d6e3ddf77a0fa9381a9b3e61"
      [] text = verified_documents[13].title -> "18065b4f7873d1160aabeebcfa3fcc3c"
      [] text = verified_documents[14].title -> "a4d534dee72bc7539b0a5cec5183b8dc"
      [] text = verified_documents[15].title -> "e8a4476ba553599b901669a5a81d4c44"
      [] text = verified_documents[16].title -> "eb86d68da3d2b911ad0139a2cfbb06f4"
      [] text = verified_documents[17].title -> "a77e1ec014b25dd1c36ad434c86cc46b"
      [] text = verified_documents[18].title -> "565d76fc183be63f0d1227a63d229d2d"
      [] text = verified_documents[19].title -> "39794335a840e80b3690af083a0e1d48"
      [] text = verified_documents[20].title -> "8d0451f03a40e1751308dc1d13247a68"
      [] text = verified_documents[21].title -> "6099d542a456543394b565c35cb5f976"
      [] text = categories[1].category_name -> "1e38dc12795a72668ecc1e100e906561"
      [] text = categories[2].category_name -> "5d7a0b61100968cdde7f9bbc61ebb63a"
      [] text = categories[3].category_name -> "f5f0c488ed56cf789d19a13ffba8abe3"
      [] text = categories[4].category_name -> "f6bc0d385e23a64d2d9eca6d90b25759"
      [] text = categories[5].category_name -> "3a94b1e70fd8ed84fae22c71687f5961"
      [] text = categories[6].category_name -> "fc175bfcf687b9c70f91adb719e14b78"
      [] text = categories[7].category_name -> "c0b8db8b36b984ed6e373e68bba63f78"
      [] text = categories[8].category_name -> "a0368c603ae5d5315026f77c6d3a3ec0"

\* the characters of the texts, in the order of their UTF-8 encodings
CodePoints ==
    <<" ", "%", ",", "-", ".", "0", "1", "2", "3", "4", "5", "6", "7", "8",
      "9", "A", "B", "C", "D", "E", "F", "G", "H", "I", "J", "K", "L", "M",
      "N", "O", "P", "Q", "R", "S", "T", "U", "V", "W", "X", "Y", "Z", "_",
      "a", "b", "c", "d", "e", "f", "g", "h", "i", "j", "k", "l", "m", "n",
      "o", "p", "q", "r", "s", "t", "u", "v", "w", "x", "y", "z", "Å", "Æ",
      "Ø", "å", "æ", "ø">>

\* the place of a character in the order of the encodings
Ord(ch) == CHOOSE i \in 1..Len(CodePoints) : CodePoints[i] = ch

\* a < b for TEXT values under the collation BINARY
RECURSIVE TextLess(_, _, _)
TextLess(a, b, i) ==
    IF i > Len(a) THEN i <= Len(b)
    ELSE IF i > Len(b) THEN FALSE
    ELSE IF a[i] = b[i] THEN TextLess(a, b, i + 1)
    ELSE Ord(a[i]) < Ord(b[i])

\* the letters LIKE folds: sqlite3 compares ASCII letters without case
LikeFold(ch) ==
    IF ch \in DOMAIN LowerMap /\ ch \notin {"Æ", "Ø", "Å"} THEN LowerMap[ch] ELSE ch

\* text LIKE pattern from position j of text and i of pattern: % matches any
\* run of characters, _ any one character, every other character itself
RECURSIVE LikeFrom(_, _, _, _)
LikeFrom(pattern, i, text, j) ==
    IF i > Len(pattern) THEN j > Len(text)
    ELSE IF pattern[i] = "%"
         THEN IF i = Len(pattern) THEN TRUE
              ELSE IF pattern[i + 1] = "%" THEN LikeFrom(pattern, i + 1, text, j)
              ELSE \E k \in j..(Len(text) + 1) : LikeFrom(pattern, i + 1, text, k)
    ELSE IF j > Len(text) THEN FALSE
    ELSE IF pattern[i] = "_" THEN LikeFrom(pattern, i + 1, text, j + 1)
    ELSE /\ LikeFold(pattern[i]) = LikeFold(text[j])
         /\ LikeFrom(pattern, i + 1, text, j + 1)

Like(text, pattern) == LikeFrom(pattern, 1, text, 1)

\* a database without tables: a new file, a new ":memory:" connection
NoTables == [name \in {} |-> <<>>]

\* init_premium_database: the three DROP TABLE IF EXISTS, the two CREATE
\* TABLE (verification_log is never created)
init_premium_database(db) ==
    LET dropped == {"oslo_planning_documents", "document_categories",
                    "verification_log"}
        created == {"oslo_planning_documents", "document_categories"}
    IN  [name \in (DOMAIN db \ dropped) \cup created |->
            IF name \in created THEN <<>> ELSE db[name]]

\* INSERT OR REPLACE of `row` into a table whose column `unique` is UNIQUE:
\* the row with the same value is deleted, and the new row gets the next id
\* of the AUTOINCREMENT
InsertOrReplace(rows, row, unique) ==
    LET kept == SelectSeq(rows, LAMBDA r : r[unique] # row[unique])
        ids == {rows[i].id : i \in 1..Len(rows)}
        next_id == IF ids = {} THEN 1 ELSE 1 + CHOOSE n \in ids : \A o \in ids : o <= n
    IN  Append(kept, ("id" :> next_id) @@ row)

\* mutant: the hash of the category is stored
DocumentValues_hashing_category(doc) ==
    [title |-> doc.title, category |-> doc.category,
     description |-> doc.description, priority |-> doc.priority,
     tags |-> doc.tags, document_hash |-> md5(doc.category)]

\* the values insert_verified_documents inserts for a document
DocumentValues(doc) ==
    [title |-> doc.title, category |-> doc.category,
     description |-> doc.description, priority |-> doc.priority,
     tags |-> doc.tags, document_hash |-> md5(doc.title)]

\* the two loops of insert_verified_documents
RECURSIVE InsertAll(_, _, _, _)
InsertAll(rows, items, i, unique) ==
    IF i > Len(items) THEN rows
    ELSE InsertAll(InsertOrReplace(rows, items[i], unique), items, i + 1, unique)

\* mutant: the last category of the list is not inserted
insert_verified_documents_but_one_category(db) ==
    [name \in DOMAIN db |->
        CASE name = "document_categories" ->
                 InsertAll(db[name], SubSeq(categories, 1, Len(categories) - 1), 1,
                           "category_name")
          [] name = "oslo_planning_documents" ->
                 InsertAll(db[name],
                           [i \in 1..Len(verified_documents) |->
                               DocumentValues(verified_documents[i])],
                           1, "title")
          [] OTHER -> db[name]]

\* insert_verified_documents on a database that has both tables
insert_verified_documents(db) ==
    [name \in DOMAIN db |->
        CASE name = "document_categories" ->
                 InsertAll(db[name], categories, 1, "category_name")
          [] name = "oslo_planning_documents" ->
                 InsertAll(db[name],
                           [i \in 1..Len(verified_documents) |->
                               DocumentValues(verified_documents[i])],
                           1, "title")
          [] OTHER -> db[name]]

\* ORDER BY priority DESC, title for documents, ORDER BY display_order for
\* categories
Before(a, b, table) ==
    IF table = "document_categories" THEN a.display_order < b.display_order
    ELSE \/ a.priority > b.priority
         \/ a.priority = b.priority /\ TextLess(a.title, b.title, 1)

RECURSIVE OrderBy(_, _)
OrderBy(rows, table) ==
    IF rows = <<>> THEN <<>>
    ELSE LET first == CHOOSE i \in 1..Len(rows) :
                          \A j \in 1..Len(rows) : ~Before(rows[j], rows[i], table)
         IN  <<rows[first]>>
             \o OrderBy(SubSeq(rows, 1, first - 1) \o SubSeq(rows, first + 1, Len(rows)),
                        table)

get_all_documents(db) ==
    OrderBy(db["oslo_planning_documents"], "oslo_planning_documents")

get_categories(db) ==
    OrderBy(db["document_categories"], "document_categories")

\* mutant: the category is compared without case
get_documents_by_category_nocase(db, category) ==
    IF Truthy(category)
    THEN OrderBy(SelectSeq(db["oslo_planning_documents"],
                           LAMBDA r : Lower(r.category) = Lower(category.s)),
                 "oslo_planning_documents")
    ELSE OrderBy(db["oslo_planning_documents"], "oslo_planning_documents")

\* `if category:` selects the query WHERE category = ?
get_documents_by_category(db, category) ==
    IF Truthy(category)
    THEN OrderBy(SelectSeq(db["oslo_planning_documents"],
                           LAMBDA r : r.category = category.s),
                 "oslo_planning_documents")
    ELSE OrderBy(db["oslo_planning_documents"], "oslo_planning_documents")

\* title LIKE ? OR description LIKE ? OR tags LIKE ?, each with the pattern
\* f"%{search_term}%"
search_documents(db, search_term) ==
    LET search_pattern == <<"%">> \o search_term \o <<"%">>
    IN  OrderBy(SelectSeq(db["oslo_planning_documents"],
                          LAMBDA r : \/ Like(r.title, search_pattern)
                                     \/ Like(r.description, search_pattern)
                                     \/ Like(r.tags, search_pattern)),
                "oslo_planning_documents")

(***************************************************************************)
(* OsloPlanningPremium on a database path.  Every thread constructs a      *)
(* system (init_premium_database, then insert_verified_documents) and      *)
(* queries it.  sqlite3 runs each DROP and CREATE as a statement of its    *)
(* own and the INSERTs of insert_verified_documents as one transaction;    *)
(* each is one step here.  On the path ":memory:" every connection opens   *)
(* an empty database of its own, which is gone when the connection is      *)
(* closed; premium_db is then the database of the one open connection.     *)
(* On "file" the file was initialised once before the threads start.       *)
(***************************************************************************)
\* range(3) threads in test_concurrent_access
MaxThreads == 3

\* the database after one complete construction
Initialised == insert_verified_documents(init_premium_database(NoTables))

\* sqlite3.connect(self.db_path): the database a new connection works on
Connect == IF db_path = ":memory:" THEN NoTables ELSE premium_db

\* what a thread does after the statement or call `step` has succeeded:
\* read_database of test_concurrent_access on a file, the calls of
\* test_system_memory_usage on ":memory:"
Continue(step) ==
    CASE step = "drop_documents" -> "drop_categories"
      [] step = "drop_categories" -> "create_documents"
      [] step = "create_documents" -> "create_categories"
      [] step = "create_categories" -> "insert_verified_documents"
      [] step = "insert_verified_documents" -> "get_all_documents"
      [] step = "get_all_documents" ->
             IF db_path = ":memory:" THEN "get_categories" ELSE "done"
      [] step = "get_categories" -> "search_documents"
      [] step = "search_documents" -> "get_documents_by_category"
      [] step = "get_documents_by_category" -> "done"

InitThreads ==
    /\ project_data = <<>>
    /\ pc = "idle"
    /\ risk_analysis = <<>>
    /\ stakeholders = <<>>
    /\ timeline = <<>>
    /\ regulatory_reqs = <<>>
    /\ regulatory_compliance = <<>>
    /\ error = ""
    /\ other = <<>>
    /\ db_path \in {"file", ":memory:"}
    /\ premium_db = IF db_path = ":memory:" THEN NoTables ELSE Initialised
    /\ threads = [t \in 1..(IF db_path = ":memory:" THEN 1 ELSE MaxThreads) |->
                     [pc |-> "drop_documents", docs |-> <<>>, categories |-> <<>>,
                      error |-> ""]]
    /\ returned = <<>>
    /\ clock = 0
    /\ web_fetcher = <<>>
    /\ http_log = <<>>
    /\ session_state = <<>>

\* DROP TABLE IF EXISTS oslo_planning_documents / document_categories
\* (verification_log is never created, its DROP changes nothing)
DropTable(t) ==
    /\ threads[t].pc \in {"drop_documents", "drop_categories"}
    /\ \E db \in {IF threads[t].pc = "drop_documents" THEN Connect ELSE premium_db} :
       \E name \in {IF threads[t].pc = "drop_documents"
                     THEN "oslo_planning_documents" ELSE "document_categories"} :
           premium_db' = [n \in DOMAIN db \ {name} |-> db[n]]
    /\ threads' = [threads EXCEPT ![t].pc = Continue(@)]
    /\ UNCHANGED <<project_data, pc, risk_analysis, stakeholders, timeline,
                   regulatory_reqs, regulatory_compliance, error, other, db_path,
                   returned, clock, web_fetcher, http_log, session_state>>

\* CREATE TABLE oslo_planning_documents / document_categories, on the
\* connection of the DROPs
CreateTable(t) ==
    /\ threads[t].pc \in {"create_documents", "create_categories"}
    /\ \E name \in {IF threads[t].pc = "create_documents"
                     THEN "oslo_planning_documents" ELSE "document_categories"} :
           IF name \in DOMAIN premium_db
           THEN /\ threads' = [threads EXCEPT ![t].pc = "raised",
                                              ![t].error = "OperationalError"]
                /\ UNCHANGED premium_db
           ELSE /\ premium_db' = [n \in DOMAIN premium_db \cup {name} |->
                                     IF n = name THEN <<>> ELSE premium_db[n]]
                /\ threads' = [threads EXCEPT ![t].pc = Continue(@)]
    /\ UNCHANGED <<project_data, pc, risk_analysis, stakeholders, timeline,
                   regulatory_reqs, regulatory_compliance, error, other, db_path,
                   returned, clock, web_fetcher, http_log, session_state>>

\* insert_verified_documents: a new connection, INSERT OR REPLACE of every
\* category and every document (keyed by the UNIQUE name and title), commit
InsertVerifiedDocuments(t) ==
    /\ threads[t].pc = "insert_verified_documents"
    /\ \E db \in {Connect} :
           IF DOMAIN Initialised \subseteq DOMAIN db
           THEN /\ premium_db' = [n \in DOMAIN db |->
                                     IF n \in DOMAIN Initialised
                                     THEN Initialised[n] ELSE db[n]]
                /\ threads' = [threads EXCEPT ![t].pc = Continue(@)]
           ELSE /\ premium_db' = db
                /\ threads' = [threads EXCEPT ![t].pc = "raised",
                                              ![t].error = "OperationalError"]
    /\ UNCHANGED <<project_data, pc, risk_analysis, stakeholders, timeline,
                   regulatory_reqs, regulatory_compliance, error, other, db_path,
                   returned, clock, web_fetcher, http_log, session_state>>

\* get_all_documents, get_categories, search_documents,
\* get_documents_by_category: a new connection and one SELECT
Query(t) ==
    /\ threads[t].pc \in {"get_all_documents", "get_categories",
                          "search_documents", "get_documents_by_category"}
    /\ \E db \in {Connect} :
       \E name \in {IF threads[t].pc = "get_categories"
                     THEN "document_categories" ELSE "oslo_planning_documents"} :
           /\ premium_db' = db
           /\ threads' =
                  IF name \notin DOMAIN db
                  THEN [threads EXCEPT ![t].pc = "raised",
                                       ![t].error = "OperationalError"]
                  ELSE [threads EXCEPT
                           ![t].pc = Continue(@),
                           ![t].docs = IF threads[t].pc = "get_all_documents"
                                       THEN <<Len(db[name])>> ELSE @,
                           ![t].categories = IF threads[t].pc = "get_categories"
                                             THEN <<Len(db[name])>> ELSE @]
    /\ UNCHANGED <<project_data, pc, risk_analysis, stakeholders, timeline,
                   regulatory_reqs, regulatory_compliance, error, other, db_path,
                   returned, clock, web_fetcher, http_log, session_state>>

NextThreads ==
    \/ \E t \in DOMAIN threads : DropTable(t)
    \/ \E t \in DOMAIN threads : CreateTable(t)
    \/ \E t \in DOMAIN threads : InsertVerifiedDocuments(t)
    \/ \E t \in DOMAIN threads : Query(t)

SpecThreads == InitThreads /\ [][NextThreads]_vars

(***************************************************************************)
(* web_utils: the global WebFetcher and check_url_accessibility.  Time is  *)
(* counted in ticks, TicksPerSecond to the second.  What the network does  *)
(* is an input of every call: the outcome of reading robots.txt, the       *)
(* outcome of session.get, and the ticks the request takes.                *)
(***************************************************************************)
\* self.min_delay, in seconds
min_delay == 1
TicksPerSecond == 2
\* time passes on its own up to MaxClock
MaxClock == 4
\* a request takes at most MaxLatency ticks
MaxLatency == 1
\* at most MaxCalls calls are made
MaxCalls == 2

\* what RobotFileParser.read() met: a robots.txt whose rules allow or
\* disallow the url, an HTTP error status, or an exception (no network)
RobotsOutcomes ==
    {"rules_allow", "rules_disallow", "http_401_403", "http_other_4xx",
     "http_5xx", "exception"}

\* what session.get met: a response with a status code, or an exception
HttpOutcomes ==
    {[raises |-> FALSE, status_code |-> code] : code \in {200, 204, 404, 500}}
        \cup {[raises |-> TRUE, status_code |-> 0]}

\* requests.Response, of which only status_code is read
Response(code) == [t |-> "Response", n |-> code, s |-> <<>>]

\* mutant: a robots.txt that cannot be read forbids the fetch
can_fetch_strict(robots) == robots = "rules_allow"

\* WebFetcher.can_fetch: read() sets disallow_all on 401/403 and allow_all on
\* any other 4xx, leaves the parser unread on 5xx (can_fetch is then False),
\* and lets any other exception through to the except clause
can_fetch(robots) ==
    CASE robots = "rules_allow" -> TRUE
      [] robots = "rules_disallow" -> FALSE
      [] robots = "http_401_403" -> FALSE
      [] robots = "http_other_4xx" -> TRUE
      [] robots = "http_5xx" -> FALSE
      [] robots = "exception" -> TRUE

\* mutant: the robots.txt check only prints its warning
get_ignoring_robots(fetcher, now, log, robots, http, latency) ==
    LET Request(issued) ==
            IF http.raises
            THEN [value |-> PyNone, fetcher |-> fetcher,
                  now |-> issued + latency, log |-> Append(log, issued)]
            ELSE [value |-> Response(http.status_code),
                  fetcher |-> [fetcher EXCEPT !.last_request_time = issued + latency],
                  now |-> issued + latency, log |-> Append(log, issued)]
        Sleep(time_since_last) ==
            IF time_since_last < min_delay * TicksPerSecond
            THEN min_delay * TicksPerSecond - time_since_last ELSE 0
    IN  Request(now + Sleep(now - fetcher.last_request_time))

\* WebFetcher.get: the value returned, the fetcher and the clock afterwards,
\* and the log of the times at which session.get was called
get(fetcher, now, log, robots, http, latency) ==
    LET Request(issued) ==
            IF http.raises
            THEN [value |-> PyNone, fetcher |-> fetcher,
                  now |-> issued + latency, log |-> Append(log, issued)]
            ELSE [value |-> Response(http.status_code),
                  fetcher |-> [fetcher EXCEPT !.last_request_time = issued + latency],
                  now |-> issued + latency, log |-> Append(log, issued)]
        Sleep(time_since_last) ==
            IF time_since_last < min_delay * TicksPerSecond
            THEN min_delay * TicksPerSecond - time_since_last ELSE 0
    IN  IF ~can_fetch(robots)
        THEN [value |-> PyNone, fetcher |-> fetcher, now |-> now, log |-> log]
        ELSE Request(now + Sleep(now - fetcher.last_request_time))

\* mutant: a status other than 200 is not reported
check_url_accessibility_any_status(robots_allowed, response) ==
    IF ~robots_allowed
    THEN [accessible |-> PyBool(FALSE), robots_allowed |-> PyBool(FALSE),
          status_code |-> PyNone,
          error |-> PyStr(<<"B", "l", "o", "c", "k", "e", "d", " ", "b", "y", " ",
                            "r", "o", "b", "o", "t", "s", ".", "t", "x", "t">>)]
    ELSE IF response # PyNone /\ ~(400 <= response.n /\ response.n < 600)
    THEN [accessible |-> PyBool(TRUE), robots_allowed |-> PyBool(TRUE),
          status_code |-> PyInt(response.n), error |-> PyNone]
    ELSE [accessible |-> PyBool(FALSE), robots_allowed |-> PyBool(TRUE),
          status_code |-> PyNone,
          error |-> PyStr(<<"R", "e", "q", "u", "e", "s", "t", " ",
                            "f", "a", "i", "l", "e", "d">>)]

\* check_url_accessibility, given what can_fetch and web_fetcher.get
\* returned: the record it returns, without the url.  `if response:` is
\* Response.__bool__, that is response.ok: false for a status in 400..599
check_url_accessibility(robots_allowed, response) ==
    LET Digit == <<"0", "1", "2", "3", "4", "5", "6", "7", "8", "9">>
        Str(code) == <<Digit[((code \div 100) % 10) + 1],
                       Digit[((code \div 10) % 10) + 1],
                       Digit[(code % 10) + 1]>>
    IN  IF ~robots_allowed
        THEN [accessible |-> PyBool(FALSE), robots_allowed |-> PyBool(FALSE),
              status_code |-> PyNone,
              error |-> PyStr(<<"B", "l", "o", "c", "k", "e", "d", " ", "b", "y", " ",
                                "r", "o", "b", "o", "t", "s", ".", "t", "x", "t">>)]
        ELSE IF response # PyNone /\ ~(400 <= response.n /\ response.n < 600)
        THEN [accessible |-> PyBool(TRUE), robots_allowed |-> PyBool(TRUE),
              status_code |-> PyInt(response.n),
              error |-> IF response.n # 200
                        THEN PyStr(<<"H", "T", "T", "P", " ">> \o Str(response.n))
                        ELSE PyNone]
        ELSE [accessible |-> PyBool(FALSE), robots_allowed |-> PyBool(TRUE),
              status_code |-> PyNone,
              error |-> PyStr(<<"R", "e", "q", "u", "e", "s", "t", " ",
                                "f", "a", "i", "l", "e", "d">>)]

InitWeb ==
    /\ project_data = <<>>
    /\ pc = "idle"
    /\ risk_analysis = <<>>
    /\ stakeholders = <<>>
    /\ timeline = <<>>
    /\ regulatory_reqs = <<>>
    /\ regulatory_compliance = <<>>
    /\ error = ""
    /\ other = <<>>
    /\ db_path = ""
    /\ premium_db = <<>>
    /\ threads = <<>>
    /\ returned = [n |-> 0, call |-> "", robots |-> <<>>,
                   http |-> [raises |-> FALSE, status_code |-> 0], value |-> PyNone]
    /\ clock = min_delay * TicksPerSecond
    /\ web_fetcher = [last_request_time |-> 0]
    /\ http_log = <<>>
    /\ session_state = <<>>

\* time passes between calls
Tick ==
    /\ clock < MaxClock
    /\ clock' = clock + 1
    /\ UNCHANGED <<project_data, pc, risk_analysis, stakeholders, timeline,
                   regulatory_reqs, regulatory_compliance, error, other, db_path,
                   premium_db, threads, returned, web_fetcher, http_log,
                   session_state>>

\* fetch_url(url) / web_fetcher.get(url)
FetchUrl ==
    /\ returned.n < MaxCalls
    /\ \E robots \in RobotsOutcomes, http \in HttpOutcomes, latency \in 0..MaxLatency :
       \E res \in {get(web_fetcher, clock, http_log, robots, http, latency)} :
           /\ returned' = [n |-> returned.n + 1, call |-> "get", robots |-> <<robots>>,
                           http |-> http, value |-> res.value]
           /\ web_fetcher' = res.fetcher
           /\ clock' = res.now
           /\ http_log' = res.log
    /\ UNCHANGED <<project_data, pc, risk_analysis, stakeholders, timeline,
                   regulatory_reqs, regulatory_compliance, error, other, db_path,
                   premium_db, threads, session_state>>

\* check_url_accessibility(url): can_fetch, then web_fetcher.get, which
\* reads robots.txt a second time
CheckUrlAccessibility ==
    /\ returned.n < MaxCalls
    /\ \E first \in RobotsOutcomes, second \in RobotsOutcomes,
          http \in HttpOutcomes, latency \in 0..MaxLatency :
           IF ~can_fetch(first)
           THEN /\ returned' = [n |-> returned.n + 1, call |-> "check_url_accessibility",
                                robots |-> <<first>>, http |-> http,
                                value |-> check_url_accessibility(FALSE, PyNone)]
                /\ UNCHANGED <<web_fetcher, clock, http_log>>
           ELSE \E res \in {get(web_fetcher, clock, http_log, second, http, latency)} :
                /\ returned' = [n |-> returned.n + 1, call |-> "check_url_accessibility",
                                robots |-> <<first, second>>, http |-> http,
                                value |-> check_url_accessibility(TRUE, res.value)]
                /\ web_fetcher' = res.fetcher
                /\ clock' = res.now
                /\ http_log' = res.log
    /\ UNCHANGED <<project_data, pc, risk_analysis, stakeholders, timeline,
                   regulatory_reqs, regulatory_compliance, error, other, db_path,
                   premium_db, threads, session_state>>

NextWeb ==
    \/ Tick
    \/ FetchUrl
    \/ CheckUrlAccessibility

SpecWeb == InitWeb /\ [][NextWeb]_vars

(***************************************************************************)
(* The analysis portal of one session: every submission of the form runs   *)
(* render_project_analysis, and render_ai_dashboard shows what session     *)
(* state holds.  The form yields values of the right types.  Reading the   *)
(* regulatory_compliance table can fail (the file is locked or replaced);  *)
(* whether it does is an input of the submission.                          *)
(***************************************************************************)
\* what the user typed as Prosjektnavn
ProjectNames == {<<>>, <<"A">>, <<"B">>}

\* the other fields of the form
FormProjects ==
    {[DefaultProject EXCEPT !.project_type = PyStr(Boligbygging)],
     [DefaultProject EXCEPT !.project_type = PyStr(Boligbygging),
                            !.residential_units = PyInt(101)],
     [DefaultProject EXCEPT !.project_type = PyStr(Boligbygging),
                            !.location = PyStr(LocationHit),
                            !.building_height = PyInt(9)],
     [AllMetProject EXCEPT !.project_type = PyStr(Boligbygging)]}

InitSession ==
    /\ project_data = <<>>
    /\ pc = "idle"
    /\ risk_analysis = <<>>
    /\ stakeholders = <<>>
    /\ timeline = <<>>
    /\ regulatory_reqs = <<>>
    /\ regulatory_compliance = populate_regulatory_data(<<>>)
    /\ error = ""
    /\ other = <<>>
    /\ db_path = ""
    /\ premium_db = <<>>
    /\ threads = <<>>
    /\ returned = [call |-> "", current_project |-> <<>>, risk |-> <<>>,
                   insights |-> <<>>]
    /\ clock = 0
    /\ web_fetcher = <<>>
    /\ http_log = <<>>
    /\ session_state = [key \in {} |-> <<>>]

\* render_project_analysis on a submission of the form: nothing without a
\* project name; otherwise current_project is stored, the four calls are
\* made, and the four results are stored if none of the calls raised
RenderProjectAnalysis ==
    /\ \E project_name \in ProjectNames, form \in FormProjects,
          read \in {"", "OperationalError"} :
           IF project_name = <<>>
           THEN UNCHANGED <<session_state, error>>
           ELSE \E current \in {[key \in DOMAIN form \cup {"project_name"} |->
                                   IF key = "project_name" THEN PyStr(project_name)
                                   ELSE form[key]]} :
                \E risk \in {analyze_project_risk(current)} :
                    IF read # ""
                    THEN /\ session_state' =
                                [key \in DOMAIN session_state \cup {"current_project"} |->
                                    IF key = "current_project" THEN current
                                    ELSE session_state[key]]
                         /\ error' = read
                    ELSE /\ session_state' =
                                [current_project |-> current,
                                 risk_analysis |-> risk.val,
                                 stakeholders |-> identify_stakeholders(current).val,
                                 timeline |-> generate_timeline(current, risk.val),
                                 regulatory_reqs |->
                                     get_regulatory_requirements(regulatory_compliance,
                                                                 current).val]
                         /\ error' = ""
    /\ UNCHANGED <<project_data, pc, risk_analysis, stakeholders, timeline,
                   regulatory_reqs, regulatory_compliance, other, db_path,
                   premium_db, threads, returned, clock, web_fetcher, http_log>>

\* render_ai_dashboard: the insights it shows, from the risk analysis and
\* the current project of session state
RenderAiDashboard ==
    /\ "current_project" \in DOMAIN session_state
    /\ returned' =
           [call |-> "render_ai_dashboard",
            current_project |-> session_state.current_project,
            risk |-> IF "risk_analysis" \in DOMAIN session_state
                     THEN <<session_state.risk_analysis>> ELSE <<>>,
            insights |->
                IF "risk_analysis" \in DOMAIN session_state
                THEN (IF FGt(session_state.risk_analysis.environmental_risk, F0_6)
                      THEN <<"Høy miljørisiko identifisert">> ELSE <<>>)
                     \o (IF FGt(session_state.risk_analysis.neighbor_risk, F0_5)
                         THEN <<"Naboengasjement kritisk">> ELSE <<>>)
                     \o (IF Get(session_state.current_project, "residential_units",
                                PyInt(0)).n > 100
                         THEN <<"Trafikkanalyse påkrevd">> ELSE <<>>)
                ELSE <<>>]
    /\ UNCHANGED <<project_data, pc, risk_analysis, stakeholders, timeline,
                   regulatory_reqs, regulatory_compliance, error, other, db_path,
                   premium_db, threads, clock, web_fetcher, http_log,
                   session_state>>

NextSession ==
    \/ RenderProjectAnalysis
    \/ RenderAiDashboard

SpecSession == InitSession /\ [][NextSession]_vars

(***************************************************************************)
(* The document catalogue in one session of the application: the system is *)
(* constructed on the default path when the application starts,            *)
(* 'Refresh Database' constructs it again, and the queries read it.  The   *)
(* file at the path is new, or was left by an earlier run or release.      *)
(***************************************************************************)
\* the default db_path of OsloPlanningPremium
DefaultPath == "oslo_planning_premium.db"

\* a file left by an earlier release: a document and a category that are no
\* longer in the lists
EarlierRelease ==
    [name \in DOMAIN Initialised |->
        IF name = "oslo_planning_documents"
        THEN Append(Initialised[name],
                    [id |-> Len(Initialised[name]) + 1,
                     title |-> <<"R", "e", "g", "u", "l", "e", "r", "i", "n", "g", "s", "p", "l", "a", "n", " ", "2", "0", "1", "0">>,
                     category |-> <<"A", "r", "k", "i", "v">>,
                     description |-> <<"R", "e", "g", "u", "l", "e", "r", "i", "n", "g", "s", "p", "l", "a", "n", " ", "2", "0", "1", "0">>,
                     priority |-> 3,
                     tags |-> <<"A", "r", "k", "i", "v">>,
                     document_hash |-> "3b029e52c3770f8dc66ae07a8ff3345a"])
        ELSE Append(Initialised[name],
                    [id |-> Len(Initialised[name]) + 1,
                     category_name |-> <<"A", "r", "k", "i", "v">>,
                     display_order |-> Len(Initialised[name]) + 1])]

PreexistingFiles == {NoTables, Initialised, EarlierRelease}

\* characters of search terms: letters of the texts in both cases, the LIKE
\* wildcards, a character of no text
TermAlphabet == {"o", "O", "ø", "Ø", "-", "%", "_", "q", " "}

\* the terms of test_search_functionality, and texts typed into the search
\* box, among them every text of at most two characters of TermAlphabet
SearchTerms ==
    {<<"k", "o", "m", "m", "u", "n", "e", "p", "l", "a", "n">>,
     <<"n", "o", "n", "e", "x", "i", "s", "t", "e", "n", "t", "_", "t", "e", "r", "m", "_", "1", "2", "3", "4", "5">>,
     <<"K", "O", "M", "M", "U", "N", "E", "P", "L", "A", "N">>,
     <<"M", "I", "L", "J", "Ø">>,
     <<"o", "_", "l", "o">>}
    \cup {<<>>}
    \cup {<<a>> : a \in TermAlphabet}
    \cup {<<a, b>> : a, b \in TermAlphabet}

\* the arguments of get_documents_by_category: none, the names that
\* get_categories returns, and other texts
CategoryArguments ==
    {PyNone, PyStr(<<>>), PyStr(Lower(categories[1].category_name)),
     PyStr(<<"A", "r", "k", "i", "v">>)}
    \cup {PyStr(categories[i].category_name) : i \in 1..Len(categories)}

InitDocuments ==
    /\ project_data = <<>>
    /\ pc = "idle"
    /\ risk_analysis = <<>>
    /\ stakeholders = <<>>
    /\ timeline = <<>>
    /\ regulatory_reqs = <<>>
    /\ regulatory_compliance = <<>>
    /\ error = ""
    /\ other = <<>>
    /\ db_path = ""
    /\ premium_db \in PreexistingFiles
    /\ threads = <<>>
    /\ returned = [call |-> "", argument |-> PyNone, rows |-> <<>>]
    /\ clock = 0
    /\ web_fetcher = <<>>
    /\ http_log = <<>>
    /\ session_state = <<>>

\* OsloPlanningPremium() when the application starts
ConstructPremium ==
    /\ db_path = ""
    /\ db_path' = DefaultPath
    /\ premium_db' = insert_verified_documents(init_premium_database(premium_db))
    /\ returned' = [call |-> "OsloPlanningPremium", argument |-> PyNone, rows |-> <<>>]
    /\ UNCHANGED <<project_data, pc, risk_analysis, stakeholders, timeline,
                   regulatory_reqs, regulatory_compliance, error, other, threads,
                   clock, web_fetcher, http_log, session_state>>

\* the button 'Refresh Database' of render_administration
RefreshDatabase ==
    /\ db_path # ""
    /\ premium_db' = insert_verified_documents(init_premium_database(premium_db))
    /\ returned' = [call |-> "Refresh Database", argument |-> PyNone, rows |-> <<>>]
    /\ UNCHANGED <<project_data, pc, risk_analysis, stakeholders, timeline,
                   regulatory_reqs, regulatory_compliance, error, other, db_path,
                   threads, clock, web_fetcher, http_log, session_state>>

GetAllDocuments ==
    /\ db_path # ""
    /\ returned' = [call |-> "get_all_documents", argument |-> PyNone,
                    rows |-> get_all_documents(premium_db)]
    /\ UNCHANGED <<project_data, pc, risk_analysis, stakeholders, timeline,
                   regulatory_reqs, regulatory_compliance, error, other, db_path,
                   premium_db, threads, clock, web_fetcher, http_log,
                   session_state>>

GetCategories ==
    /\ db_path # ""
    /\ returned' = [call |-> "get_categories", argument |-> PyNone,
                    rows |-> get_categories(premium_db)]
    /\ UNCHANGED <<project_data, pc, risk_analysis, stakeholders, timeline,
                   regulatory_reqs, regulatory_compliance, error, other, db_path,
                   premium_db, threads, clock, web_fetcher, http_log,
                   session_state>>

GetDocumentsByCategory ==
    /\ db_path # ""
    /\ \E category \in CategoryArguments :
           returned' = [call |-> "get_documents_by_category", argument |-> category,
                        rows |-> get_documents_by_category(premium_db, category)]
    /\ UNCHANGED <<project_data, pc, risk_analysis, stakeholders, timeline,
                   regulatory_reqs, regulatory_compliance, error, other, db_path,
                   premium_db, threads, clock, web_fetcher, http_log,
                   session_state>>

SearchDocuments ==
    /\ db_path # ""
    /\ \E search_term \in SearchTerms :
           returned' = [call |-> "search_documents", argument |-> PyStr(search_term),
                        rows |-> search_documents(premium_db, search_term)]
    /\ UNCHANGED <<project_data, pc, risk_analysis, stakeholders, timeline,
                   regulatory_reqs, regulatory_compliance, error, other, db_path,
                   premium_db, threads, clock, web_fetcher, http_log,
                   session_state>>

NextDocuments ==
    \/ ConstructPremium
    \/ RefreshDatabase
    \/ GetAllDocuments
    \/ GetCategories
    \/ GetDocumentsByCategory
    \/ SearchDocuments

SpecDocuments == InitDocuments /\ [][NextDocuments]_vars

(***************************************************************************)
(* Exact arithmetic the properties are stated in                           *)
(***************************************************************************)
FLe(x, y) == BigCmp(x, y) <= 0

\* the integer nearest to 100 * x
ScoreHundredths(x) ==
    LET h == BigMulSmall(x, 100)
    IN  h[ValLimbs] + Bit(h, FracLimbs * LimbBits - 1)

\* x is the float of a decimal with two places
IsTwoDecimal(x) == Dbl(ScoreHundredths(x), 100) = x

\* TRUE iff x > num/den as real numbers
DecGt(x, num, den) ==
    BigCmp(BigMulSmall(x, den), Resize(FromInt(num), ValLimbs + 1)) > 0

\* base and increments of the five sub-scores, in hundredths
SubScoreTable ==
    <<[base |-> 30, incs |-> <<40, 20, 30>>],
      [base |-> 20, incs |-> <<30, 20, 25>>],
      [base |-> 25, incs |-> <<20, 15, 10>>],
      [base |-> 10, incs |-> <<40, 30, 20>>],
      [base |-> 15, incs |-> <<25, 20, 15>>]>>

ConditionsOf(p) ==
    <<EnvironmentalConditions(p), TrafficConditions(p), NeighborConditions(p),
      RegulatoryConditions(p), TechnicalConditions(p)>>

\* base plus the increments of the conditions met, in hundredths, unclamped
DecimalSum(i, conds) ==
    SubScoreTable[i].base
    + (IF conds[1] THEN SubScoreTable[i].incs[1] ELSE 0)
    + (IF conds[2] THEN SubScoreTable[i].incs[2] ELSE 0)
    + (IF conds[3] THEN SubScoreTable[i].incs[3] ELSE 0)

SubScoresOf(ra) ==
    <<ra.environmental_risk, ra.traffic_risk, ra.neighbor_risk,
      ra.regulatory_risk, ra.technical_risk>>

WeightHundredths == <<30, 25, 20, 15, 10>>

WideLimbs == ValLimbs + 2
Wide(a) == Resize(a, WideLimbs)
WideAdd(a, b) == Wide(BigAdd(Wide(a), Wide(b)))

\* 30*e + 25*t + 20*n + 15*r + 10*k without any rounding: one hundred times
\* the weighted sum of the sub-scores of ra
ExactWeightedHundredths(ra) ==
    LET sub == SubScoresOf(ra)
    IN  WideAdd(WideAdd(WideAdd(WideAdd(BigMulSmall(sub[1], 30),
                                        BigMulSmall(sub[2], 25)),
                                BigMulSmall(sub[3], 20)),
                        BigMulSmall(sub[4], 15)),
                BigMulSmall(sub[5], 10))

\* half a hundredth, plus 2^-40 for the rounding error of the float sum
RoundingSlack ==
    WideAdd(BigPow2(FracLimbs * LimbBits - 1, WideLimbs), BigPow2(20, WideLimbs))

\* the unrounded total of the sub-scores ra reports
TotalOf(ra) ==
    WeightedTotal(ra.environmental_risk, ra.traffic_risk, ra.neighbor_risk,
                  ra.regulatory_risk, ra.technical_risk)

\* analyze_project_risk has just returned its result
RiskReturned == pc = "identify_stakeholders"

(***************************************************************************)
(* C1.  Each of the five sub-scores analyze_project_risk returns lies in   *)
(* [0.0, 1.0], and a sub-score whose base and increments sum above 1.0 is  *)
(* reported as exactly 1.0.                                                *)
(***************************************************************************)
C1_SubScoresClamped ==
    risk_analysis # <<>> =>
        LET sub   == SubScoresOf(risk_analysis[1])
            conds == ConditionsOf(Completed(project_data))
        IN  \A i \in 1..5 :
                /\ FLe(F0_0, sub[i])
                /\ FLe(sub[i], F1_0)
                /\ DecimalSum(i, conds[i]) > 100 => sub[i] = F1_0

\* witness: the environmental increments sum to 1.2 and 1.0 is reported
C1_Witness ==
    /\ risk_analysis # <<>>
    /\ DecimalSum(1, EnvironmentalConditions(Completed(project_data))) > 100
    /\ risk_analysis[1].environmental_risk = F1_0

(***************************************************************************)
(* C2.  total_risk_score is a two-decimal number within half a hundredth   *)
(* (and float tolerance) of 0.30*environmental + 0.25*traffic +            *)
(* 0.20*neighbor + 0.15*regulatory + 0.10*technical of the sub-scores in   *)
(* the same result, and the five weights are those and sum to 1.0.         *)
(***************************************************************************)
C2_TotalIsRoundedWeightedSum ==
    RiskReturned =>
        LET ra == risk_analysis[1]
            x  == ExactWeightedHundredths(ra)
            k  == Wide(FromInt(ScoreHundredths(ra.total_risk_score)))
        IN  /\ IsTwoDecimal(ra.total_risk_score)
            /\ BigCmp(x, WideAdd(k, RoundingSlack)) <= 0
            /\ BigCmp(k, WideAdd(x, RoundingSlack)) <= 0
            /\ risk_factors.environmental = Dbl(WeightHundredths[1], 100)
            /\ risk_factors.traffic = Dbl(WeightHundredths[2], 100)
            /\ risk_factors.neighbor_opposition = Dbl(WeightHundredths[3], 100)
            /\ risk_factors.regulatory_complexity = Dbl(WeightHundredths[4], 100)
            /\ risk_factors.technical_difficulty = Dbl(WeightHundredths[5], 100)
            /\ FAdd(FAdd(FAdd(FAdd(risk_factors.environmental, risk_factors.traffic),
                              risk_factors.neighbor_opposition),
                         risk_factors.regulatory_complexity),
                    risk_factors.technical_difficulty) = F1_0

\* witness: a total that is not a two-decimal number was rounded (0.2975 to 0.3)
C2_Witness ==
    /\ RiskReturned
    /\ ScoreHundredths(risk_analysis[1].total_risk_score) = 30
    /\ ~IsTwoDecimal(TotalOf(risk_analysis[1]))

(***************************************************************************)
(* C3.  risk_level is decided by the unrounded weighted total t:           *)
(* Low iff t < 0.3, Medium iff 0.3 <= t < 0.6, High iff 0.6 <= t < 0.8,    *)
(* Critical iff t >= 0.8.                                                  *)
(***************************************************************************)
C3_LevelFromUnroundedTotal ==
    RiskReturned =>
        LET t     == TotalOf(risk_analysis[1])
            level == risk_analysis[1].risk_level
        IN  /\ level \in {"Low", "Medium", "High", "Critical"}
            /\ level = "Low" <=> FLt(t, F0_3)
            /\ level = "Medium" <=> (~FLt(t, F0_3) /\ FLt(t, F0_6))
            /\ level = "High" <=> (~FLt(t, F0_6) /\ FLt(t, F0_8))
            /\ level = "Critical" <=> ~FLt(t, F0_8)

\* witness: a total just below 0.6 that rounds to 0.6 and is Medium
C3_Witness ==
    /\ RiskReturned
    /\ ScoreHundredths(risk_analysis[1].total_risk_score) = 60
    /\ FLt(TotalOf(risk_analysis[1]), F0_6)
    /\ risk_analysis[1].risk_level = "Medium"

\* the four-bucket table applied to a score of k hundredths
LevelOfHundredths(k) ==
    IF k < 30 THEN "Low" ELSE IF k < 60 THEN "Medium" ELSE IF k < 80 THEN "High"
    ELSE "Critical"

(***************************************************************************)
(* C4 as claimed.  risk_level is the four-bucket table applied to the      *)
(* total_risk_score field of the same result.                              *)
(***************************************************************************)
C4_LevelFromRoundedScore ==
    risk_analysis # <<>> =>
        risk_analysis[1].risk_level =
            LevelOfHundredths(ScoreHundredths(risk_analysis[1].total_risk_score))

(***************************************************************************)
(* C4 as amended.  risk_level is the four-bucket table applied to          *)
(* total_risk_score whenever total_risk_score is none of 0.3, 0.6, 0.8; at *)
(* exactly 0.3, 0.6 or 0.8 it is the level of that bucket or of the bucket *)
(* below, as the unrounded total decides.                                  *)
(***************************************************************************)
C4_LevelFromRoundedScoreOffBoundary ==
    risk_analysis # <<>> =>
        LET k     == ScoreHundredths(risk_analysis[1].total_risk_score)
            level == risk_analysis[1].risk_level
        IN  IF k \in {30, 60, 80}
            THEN level \in {LevelOfHundredths(k), LevelOfHundredths(k - 1)}
            ELSE level = LevelOfHundredths(k)

\* witness: total_risk_score is 0.3 and the level is the one below, Low
C4_Witness ==
    /\ risk_analysis # <<>>
    /\ ScoreHundredths(risk_analysis[1].total_risk_score) = 30
    /\ risk_analysis[1].risk_level = "Low"

\* the three tiers applied to a score of k hundredths
TierOfHundredths(k) ==
    IF k > 70 THEN RecsHigh ELSE IF k > 50 THEN RecsMedium ELSE RecsLow

(***************************************************************************)
(* C5 as claimed.  The recommendations are the tier the total_risk_score   *)
(* field of the same result selects: > 0.7, > 0.5, else.                   *)
(***************************************************************************)
C5_TierFromRoundedScore ==
    risk_analysis # <<>> =>
        risk_analysis[1].recommendations =
            TierOfHundredths(ScoreHundredths(risk_analysis[1].total_risk_score))

(***************************************************************************)
(* C5 as amended.  The recommendations are one of three fixed lists of     *)
(* three strings, selected only by the unrounded weighted total t (> 0.7,  *)
(* > 0.5, else); they are the tier total_risk_score selects whenever       *)
(* total_risk_score is neither 0.5 nor 0.7, and at exactly 0.5 or 0.7 that *)
(* tier or the next higher one.                                            *)
(***************************************************************************)
C5_TierFromUnroundedTotal ==
    RiskReturned =>
        LET t    == TotalOf(risk_analysis[1])
            k    == ScoreHundredths(risk_analysis[1].total_risk_score)
            recs == risk_analysis[1].recommendations
        IN  /\ Len(recs) = 3
            /\ recs = RecsHigh <=> FGt(t, F0_7)
            /\ recs = RecsMedium <=> (~FGt(t, F0_7) /\ FGt(t, F0_5))
            /\ recs = RecsLow <=> ~FGt(t, F0_5)
            /\ IF k \in {50, 70}
               THEN recs \in {TierOfHundredths(k), TierOfHundredths(k + 1)}
               ELSE recs = TierOfHundredths(k)

\* witness: total_risk_score is 0.5 and the tier is the higher one
C5_Witness ==
    /\ RiskReturned
    /\ ScoreHundredths(risk_analysis[1].total_risk_score) = 50
    /\ risk_analysis[1].recommendations = RecsMedium

(***************************************************************************)
(* C6.  With any of the recognized fields absent, the four operations      *)
(* return without error, and each result equals the one obtained when the  *)
(* absent fields are supplied with their defaults (0, false, "").          *)
(***************************************************************************)
C6_AbsentMeansDefault ==
    DOMAIN project_data # Fields =>
        /\ error = ""
        /\ pc # "raised"
        /\ pc = "done" =>
            LET full == Completed(project_data)
                ra   == analyze_project_risk(full)
                st   == identify_stakeholders(full)
                rq   == get_regulatory_requirements(regulatory_compliance, full)
            IN  /\ ra.err = "" /\ risk_analysis = <<ra.val>>
                /\ st.err = "" /\ stakeholders = st.val
                /\ timeline = generate_timeline(full, ra.val)
                /\ rq.err = "" /\ regulatory_reqs = rq.val

\* witness: the four operations returned for the project with no field at all
C6_Witness ==
    /\ pc = "done"
    /\ DOMAIN project_data = {}
    /\ risk_analysis # <<>>
    /\ Len(timeline) = 7

\* a text or number field of p holds a value of another type
IsMistyped(p, key) ==
    \/ key \in TextFields /\ p[key].t # "str"
    \/ key \in NumberFields /\ ~IsNumber(p[key])

\* p with every type-mismatched field replaced by its documented default
Defaulted(p) ==
    [key \in Fields |-> IF IsMistyped(p, key) THEN DefaultOf(key) ELSE p[key]]

(***************************************************************************)
(* C7.  With a text or number field present but type-mismatched (null or   *)
(* of another type), analyze_project_risk signals no error and returns the *)
(* result it returns when that field holds its documented default.         *)
(***************************************************************************)
C7_MistypedMeansDefault ==
    (/\ pc # "analyze_project_risk"
     /\ DOMAIN project_data = Fields
     /\ \E key \in Fields : IsMistyped(project_data, key)) =>
        /\ error = ""
        /\ risk_analysis = <<analyze_project_risk(Defaulted(project_data)).val>>

StakeholderNames(list) == [i \in 1..Len(list) |-> list[i].name]

\* the names the claim lists for project description p (all fields present)
ExpectedStakeholderNames(p) ==
    <<"Plan- og bygningsetaten (PBE)", "Bymiljøetaten (BYM)">>
    \o (IF Truthy(p.environmental_impact) THEN <<"Miljødirektoratet">> ELSE <<>>)
    \o (IF Truthy(p.heritage_area) THEN <<"Riksantikvaren">> ELSE <<>>)
    \o (IF p.residential_units.n > 50
        THEN <<"Naboer og lokalmiljø", "Bydelsutvalget">> ELSE <<>>)

(***************************************************************************)
(* C8.  identify_stakeholders returns the two core stakeholders, then      *)
(* Miljødirektoratet iff environmental_impact is set, then Riksantikvaren  *)
(* iff heritage_area is set, then the two community stakeholders iff       *)
(* residential_units > 50: between 2 and 6 entries, no name twice, and     *)
(* setting environmental_impact adds exactly one entry.                    *)
(***************************************************************************)
C8_StakeholderList ==
    stakeholders # <<>> =>
        LET full    == Completed(project_data)
            names   == StakeholderNames(stakeholders)
            withEnv == [full EXCEPT !["environmental_impact"] = PyBool(TRUE)]
            without == [full EXCEPT !["environmental_impact"] = PyBool(FALSE)]
        IN  /\ names = ExpectedStakeholderNames(full)
            /\ Len(names) >= 2 /\ Len(names) <= 6
            /\ \A i, j \in 1..Len(names) : names[i] = names[j] => i = j
            /\ Len(identify_stakeholders(withEnv).val)
                   = Len(identify_stakeholders(without).val) + 1

\* witness: 51 residential units, and the community stakeholders are listed
C8_Witness ==
    /\ stakeholders # <<>>
    /\ Completed(project_data).residential_units = PyInt(51)
    /\ stakeholders[Len(stakeholders)].name = "Bydelsutvalget"
    /\ stakeholders[Len(stakeholders) - 1].name = "Naboer og lokalmiljø"

PhaseNames ==
    <<"Forstudie og konseptutvikling", "Reguleringsplan utarbeidelse",
      "Offentlig høring", "Politisk behandling", "Byggesøknad",
      "Detaljprosjektering", "Byggestart">>

(***************************************************************************)
(* C9.  generate_timeline returns the seven phases in the template order;  *)
(* the first has no dependencies and every later one depends on exactly    *)
(* the phase before it.                                                    *)
(***************************************************************************)
C9_TimelineChain ==
    timeline # <<>> =>
        /\ Len(timeline) = 7
        /\ \A i \in 1..7 : timeline[i].name = PhaseNames[i]
        /\ timeline[1].dependencies = <<>>
        /\ \A i \in 2..7 : timeline[i].dependencies = <<timeline[i - 1].name>>

\* witness: a generated timeline whose last phase depends on the sixth
C9_Witness ==
    /\ pc = "get_regulatory_requirements"
    /\ Len(timeline) = 7
    /\ timeline[7].name = "Byggestart"
    /\ timeline[7].dependencies = <<"Detaljprosjektering">>

BaseDurations == <<4, 8, 6, 4, 6, 8, 1>>

(***************************************************************************)
(* C10.  Each duration_weeks is floor(base * (1 + 0.5 * total_risk_score)) *)
(* for the bases 4, 8, 6, 4, 6, 8, 1, plus 4 for the second phase iff      *)
(* requires_zoning_change is set, plus 3 for the third phase iff the       *)
(* neighbor sub-score is greater than 0.6; every duration is at least 1.   *)
(***************************************************************************)
C10_Durations ==
    timeline # <<>> =>
        LET ra     == risk_analysis[1]
            k      == ScoreHundredths(ra.total_risk_score)
            zoning == Truthy(Completed(project_data).requires_zoning_change)
        IN  \A i \in 1..7 :
                /\ timeline[i].duration_weeks =
                       (BaseDurations[i] * (200 + k)) \div 200
                       + (IF i = 2 /\ zoning THEN 4 ELSE 0)
                       + (IF i = 3 /\ DecGt(ra.neighbor_risk, 6, 10) THEN 3 ELSE 0)
                /\ timeline[i].duration_weeks >= 1

\* witness: both flat additions apply and the multiplication leaves a
\* fraction that is dropped
C10_Witness ==
    /\ timeline # <<>>
    /\ Truthy(Completed(project_data).requires_zoning_change)
    /\ DecGt(risk_analysis[1].neighbor_risk, 6, 10)
    /\ (6 * (200 + ScoreHundredths(risk_analysis[1].total_risk_score))) % 200 # 0
    /\ timeline[2].duration_weeks
           = (8 * (200 + ScoreHundredths(risk_analysis[1].total_risk_score))) \div 200 + 4
    /\ timeline[3].duration_weeks
           = (6 * (200 + ScoreHundredths(risk_analysis[1].total_risk_score))) \div 200 + 3

\* p is a zero-risk project: all flags false, all numeric fields 0 or absent,
\* no text marker
ZeroRisk(p) ==
    /\ \A key \in NumberFields : Completed(p)[key] = PyInt(0)
    /\ \A key \in FlagFields : Completed(p)[key] = PyBool(FALSE)
    /\ \A key \in TextFields : Completed(p)[key].t = "str"
    /\ \A i \in 1..5 : \A j \in 1..3 : ~ConditionsOf(Completed(p))[i][j]

(***************************************************************************)
(* C11.  For the zero-risk project, the timeline generated from the        *)
(* assessment analyze_project_risk returns for it keeps every base         *)
(* duration, so the durations total 4+8+6+4+6+8+1 = 37 weeks.              *)
(***************************************************************************)
C11_ZeroRiskKeepsBase ==
    (timeline # <<>> /\ ZeroRisk(project_data)) =>
        /\ \A i \in 1..7 : timeline[i].duration_weeks = BaseDurations[i]
        /\ timeline[1].duration_weeks + timeline[2].duration_weeks
              + timeline[3].duration_weeks + timeline[4].duration_weeks
              + timeline[5].duration_weeks + timeline[6].duration_weeks
              + timeline[7].duration_weeks = 37

\* witness: a zero-risk project with marker-free text and an absent number
\* is assessed at 0.22 and its eight-week phase stays at eight weeks
C11_Witness ==
    /\ timeline # <<>>
    /\ ZeroRisk(project_data)
    /\ "building_height" \notin DOMAIN project_data
    /\ project_data.location = PyStr(LocationMiss)
    /\ ScoreHundredths(risk_analysis[1].total_risk_score) = 22
    /\ timeline[2].duration_weeks = 8

\* some record of reqs carries the regulation name
Listed(name, reqs) == \E i \in 1..Len(reqs) : reqs[i].regulation_name = name

(***************************************************************************)
(* C12.  Every catalog record whose compliance_status is 'mandatory' is    *)
(* in the list get_regulatory_requirements returns.                        *)
(***************************************************************************)
C12_MandatoryListed ==
    pc = "done" =>
        \A i \in 1..Len(regulatory_compliance) :
            regulatory_compliance[i].compliance_status = "mandatory" =>
                \E j \in 1..Len(regulatory_reqs) :
                    regulatory_reqs[j] = regulatory_compliance[i]

\* witness: no conditional record applies and the three mandatory ones are
\* returned
C12_Witness ==
    /\ pc = "done"
    /\ Len(regulatory_reqs) = 3
    /\ Listed("Plan- og bygningsloven (PBL)", regulatory_reqs)
    /\ Listed("TEK17 - Teknisk forskrift", regulatory_reqs)
    /\ Listed("Kommuneplanens arealdel", regulatory_reqs)

(***************************************************************************)
(* C13.  Naturmangfoldloven is in the list get_regulatory_requirements     *)
(* returns iff environmental_impact is set, whatever project_type and      *)
(* residential_units are.                                                  *)
(***************************************************************************)
C13_NatureIffEnvironmentalImpact ==
    pc = "done" =>
        (Listed("Naturmangfoldloven", regulatory_reqs)
            <=> Truthy(Get(project_data, "environmental_impact", PyBool(FALSE))))

\* witness: a residential project above 100 units without environmental
\* impact gets the pollution regulation but not the nature-diversity one
C13_Witness ==
    /\ pc = "done"
    /\ Get(project_data, "project_type", PyStr(<<>>)) = PyStr(Residential)
    /\ Get(project_data, "residential_units", PyInt(0)) = PyInt(101)
    /\ ~Truthy(Get(project_data, "environmental_impact", PyBool(FALSE)))
    /\ Listed("Forurensningsloven", regulatory_reqs)
    /\ ~Listed("Naturmangfoldloven", regulatory_reqs)

(***************************************************************************)
(* C14.  For project_type 'residential', Forurensningsloven is in the list *)
(* get_regulatory_requirements returns iff residential_units > 100; for    *)
(* every other project_type it is in the list whatever residential_units.  *)
(***************************************************************************)
C14_PollutionRule ==
    pc = "done" =>
        (Listed("Forurensningsloven", regulatory_reqs)
            <=> (Get(project_data, "project_type", PyStr(<<>>)) = PyStr(Residential)
                    => Get(project_data, "residential_units", PyInt(0)).n > 100))

\* witness: a residential project of exactly 100 units does not get the
\* pollution regulation
C14_Witness ==
    /\ pc = "done"
    /\ Get(project_data, "project_type", PyStr(<<>>)) = PyStr(Residential)
    /\ Get(project_data, "residential_units", PyInt(0)) = PyInt(100)
    /\ ~Listed("Forurensningsloven", regulatory_reqs)

\* the last operation on the catalog was a call that returned
Returned == pc \in {"called", "called_again"}

\* C15: for every project description and every catalog, each record with
\* compliance_status 'conditional' whose regulation_name is neither
\* 'Naturmangfoldloven' nor 'Forurensningsloven' is in the list that
\* get_regulatory_requirements returns.
C15_ConditionalWithoutRuleListed ==
    Returned =>
        \A i \in 1..Len(regulatory_compliance) :
            (/\ regulatory_compliance[i].compliance_status = "conditional"
             /\ regulatory_compliance[i].regulation_name
                    \notin {"Naturmangfoldloven", "Forurensningsloven"})
            => \E j \in 1..Len(regulatory_reqs) :
                   regulatory_reqs[j] = regulatory_compliance[i]

\* a catalog with the conditional 'Kulturminneloven' was filtered for a
\* project without environmental impact, and the record was returned
C15_Witness ==
    /\ pc = "called"
    /\ Get(project_data, "environmental_impact", PyBool(FALSE)) = PyBool(FALSE)
    /\ regulatory_compliance[1].regulation_name = "Kulturminneloven"
    /\ regulatory_compliance[1].compliance_status = "conditional"
    /\ regulatory_reqs[1] = regulatory_compliance[1]

\* C16: a call of get_regulatory_requirements that directly follows a call on
\* the same system with the same project description returns the identical
\* list (same records, same order), and every returned list is an
\* order-preserving sub-sequence of the catalog rows.
C16_RepeatableSubsequence ==
    /\ [](Returned =>
            LET RECURSIVE IsSubsequence(_, _)
                IsSubsequence(i, j) ==
                    IF i > Len(regulatory_reqs) THEN TRUE
                    ELSE IF j > Len(regulatory_compliance) THEN FALSE
                    ELSE IF regulatory_reqs[i] = regulatory_compliance[j]
                         THEN IsSubsequence(i + 1, j + 1)
                         ELSE IsSubsequence(i, j + 1)
            IN  IsSubsequence(1, 1))
    /\ [][(Returned /\ pc' = "called_again" /\ project_data' = project_data)
              => regulatory_reqs' = regulatory_reqs]_vars

\* a second call in succession returned a list that leaves out some row of
\* the catalog and keeps others
C16_Witness ==
    /\ pc = "called_again"
    /\ regulatory_reqs # <<>>
    /\ Len(regulatory_reqs) < Len(regulatory_compliance)

\* C17: on a database file that was empty before the first construction,
\* after any number of OsloAIPlanningSystem constructions the
\* regulatory_compliance table holds exactly the five seeded regulations, one
\* record per regulation_name (so a further construction changes no result),
\* and get_regulatory_requirements never returns the same regulation twice.
C17_CatalogImmutable ==
    (regulatory_compliance[1].regulation_name = regulations[1].regulation_name)
    => /\ regulatory_compliance = populate_regulatory_data(<<>>)
       /\ Returned =>
              \A i, j \in 1..Len(regulatory_reqs) :
                  regulatory_reqs[i].regulation_name = regulatory_reqs[j].regulation_name
                  => i = j

\* C18: no step of an assessment changes a project description, a risk
\* assessment that was returned, or the regulatory_compliance table; and under
\* every interleaving with the other session's assessment, a finished
\* assessment holds the results the four methods give for its own project
\* description.
C18_AssessmentMutatesNothing ==
    /\ [][/\ project_data' = project_data
          /\ other'.project_data = other.project_data
          /\ regulatory_compliance' = regulatory_compliance
          /\ risk_analysis # <<>> => risk_analysis' = risk_analysis
          /\ other.risk_analysis # <<>> => other'.risk_analysis = other.risk_analysis]_vars
    /\ [](pc = "done" =>
            /\ risk_analysis = <<analyze_project_risk(project_data).val>>
            /\ stakeholders = identify_stakeholders(project_data).val
            /\ timeline = generate_timeline(project_data, risk_analysis[1])
            /\ regulatory_reqs =
                   get_regulatory_requirements(regulatory_compliance, project_data).val)
    /\ [](other.pc = "done" =>
            other.regulatory_reqs =
                get_regulatory_requirements(regulatory_compliance,
                                            other.project_data).val)

\* both sessions finished assessments of different projects against the
\* same table and hold different lists of requirements
C18_Witness ==
    /\ pc = "done"
    /\ other.pc = "done"
    /\ other.project_data # project_data
    /\ Len(other.regulatory_reqs) < Len(regulatory_reqs)

\* C19: when several threads each construct an OsloPlanningPremium on the
\* same, already initialised database file and then call get_all_documents,
\* no thread ends with an error and every thread that finishes has read a
\* non-empty document set, under every interleaving.
C19_ConcurrentAccessSucceeds ==
    db_path = "file" =>
        \A t \in DOMAIN threads :
            /\ threads[t].error = ""
            /\ threads[t].pc = "done" => threads[t].docs[1] > 0

\* C20: an OsloPlanningPremium constructed on ':memory:' initialises without
\* error, and afterwards get_all_documents and get_categories return
\* non-empty results and search_documents and get_documents_by_category
\* return without error.
C20_MemoryDatabaseWorks ==
    db_path = ":memory:" =>
        \A t \in DOMAIN threads :
            /\ threads[t].pc # "raised"
            /\ threads[t].docs # <<>> => threads[t].docs[1] > 0
            /\ threads[t].categories # <<>> => threads[t].categories[1] > 0

\* C29: the risk category and the recommendation tier of one assessment
\* agree: the recommendations contain 'Project appears low risk' only if
\* risk_level is 'Low', and whenever risk_level is 'High' or 'Critical' the
\* recommendations are the 'comprehensive stakeholder engagement' tier.
C29_LevelAndTierAgree ==
    RiskReturned =>
        /\ (\E i \in 1..Len(risk_analysis[1].recommendations) :
                risk_analysis[1].recommendations[i] = RecsLow[1])
           => risk_analysis[1].risk_level = "Low"
        /\ risk_analysis[1].risk_level \in {"High", "Critical"}
           => risk_analysis[1].recommendations = RecsHigh

\* C30: for every project description the total_risk_score that
\* analyze_project_risk returns lies between 0.22 (no condition met) and 0.90
\* (every condition met) inclusive, so the timeline's risk multiplier
\* 1 + 0.5 * total_risk_score lies within [1.0, 1.5] and a total_risk_score
\* of 1.0 is never produced; and each of the levels Low, Medium, High and
\* Critical is produced: by the projects with no condition met, with the
\* environmental conditions and one neighbor condition met, with the
\* environmental, traffic and neighbor conditions met, and with every
\* condition met.
C30_ScoreRange ==
    RiskReturned =>
        LET Multiplier(score) == FAdd(F1_0, FMul(score, F0_5))
            InRange(k, m) ==
                /\ 22 <= k /\ k <= 90
                /\ FLe(F1_0, m) /\ FLe(m, Dbl(3, 2))
            Levels(met, k, level) ==
                /\ met = <<0, 0, 0, 0, 0>> => (k = 22 /\ level = "Low")
                /\ met = <<3, 0, 1, 0, 0>> => level = "Medium"
                /\ met = <<3, 3, 3, 0, 0>> => level = "High"
                /\ met = <<3, 3, 3, 3, 3>> => (k = 90 /\ level = "Critical")
        IN  /\ InRange(ScoreHundredths(risk_analysis[1].total_risk_score),
                       Multiplier(risk_analysis[1].total_risk_score))
            /\ risk_analysis[1].total_risk_score # F1_0
            /\ Levels([i \in 1..5 |->
                          CountMet(ConditionsOf(Completed(project_data))[i])],
                      ScoreHundredths(risk_analysis[1].total_risk_score),
                      risk_analysis[1].risk_level)

\* every condition is met: total_risk_score 0.9, 'Critical'
C30_Witness ==
    /\ RiskReturned
    /\ \A i \in 1..5 : CountMet(ConditionsOf(Completed(project_data))[i]) = 3
    /\ ScoreHundredths(risk_analysis[1].total_risk_score) = 90
    /\ risk_analysis[1].risk_level = "Critical"

\* C25: whenever the robots.txt check of a WebFetcher.get call says that
\* fetching is disallowed, the call issues no HTTP request, returns None and
\* leaves last_request_time unchanged.
C25_RobotsCompliance ==
    [][(/\ returned'.n # returned.n
        /\ returned'.call = "get"
        /\ ~can_fetch(returned'.robots[1]))
       => /\ http_log' = http_log
          /\ returned'.value = PyNone
          /\ web_fetcher'.last_request_time = web_fetcher.last_request_time]_vars

\* after one request was issued, a second get was refused by robots.txt
C25_Witness ==
    /\ returned.n = 2
    /\ returned.call = "get"
    /\ returned.robots = <<"rules_disallow">>
    /\ returned.value = PyNone
    /\ Len(http_log) = 1
    /\ web_fetcher.last_request_time > 0

\* C26: in any sequence of get calls on one WebFetcher, also ones whose
\* HTTP request raises, any two consecutive HTTP requests it issues are at
\* least min_delay apart.
C26_RateLimited ==
    \A i \in 1..(Len(http_log) - 1) :
        http_log[i + 1] - http_log[i] >= min_delay * TicksPerSecond

\* C27: in the record check_url_accessibility returns, error is None if and
\* only if a response with status code 200 was obtained; every other outcome
\* (blocked by robots.txt, an exception, no response, another status) has a
\* message in error; and accessible is true only when robots_allowed is true
\* and status_code is set.  No outcome of the network makes it raise.
C27_FailuresSurfaced ==
    returned.call = "check_url_accessibility" =>
        /\ returned.value.error = PyNone
           <=> (/\ \A i \in 1..Len(returned.robots) : can_fetch(returned.robots[i])
                /\ ~returned.http.raises
                /\ returned.http.status_code = 200)
        /\ returned.value.error # PyNone
           => (returned.value.error.t = "str" /\ Len(returned.value.error.s) > 0)
        /\ Truthy(returned.value.accessible)
           => (/\ Truthy(returned.value.robots_allowed)
               /\ returned.value.status_code.t = "int")

\* robots.txt allowed the fetch and the server answered 404: the response is
\* falsy, the record reports 'Request failed' and is not accessible
C27_Witness ==
    /\ returned.call = "check_url_accessibility"
    /\ returned.robots = <<"rules_allow", "rules_allow">>
    /\ returned.http = [raises |-> FALSE, status_code |-> 404]
    /\ returned.value.error.t = "str"
    /\ returned.value.status_code = PyNone
    /\ ~Truthy(returned.value.accessible)

\* C28: after any sequence of form submissions, whenever current_project and
\* the four results are present in session state, the results are the ones
\* computed from that current_project; and render_ai_dashboard never shows
\* one project together with the risk analysis of another.
C28_SessionStateConsistent ==
    /\ {"current_project", "risk_analysis", "stakeholders", "timeline",
        "regulatory_reqs"} \subseteq DOMAIN session_state
       => /\ session_state.risk_analysis =
                analyze_project_risk(session_state.current_project).val
          /\ session_state.stakeholders =
                identify_stakeholders(session_state.current_project).val
          /\ session_state.timeline =
                generate_timeline(session_state.current_project,
                                  session_state.risk_analysis)
          /\ session_state.regulatory_reqs =
                get_regulatory_requirements(regulatory_compliance,
                                            session_state.current_project).val
    /\ (returned.call = "render_ai_dashboard" /\ returned.risk # <<>>)
       => returned.risk[1] = analyze_project_risk(returned.current_project).val

\* C21: after any number of constructions on the same database file, the
\* 'Refresh Database' action included, the documents table holds exactly one
\* row per seed document: no two rows share a title, and the document_hash
\* values are pairwise distinct.
C21_OneRowPerSeedDocument ==
    db_path = DefaultPath =>
        LET rows == premium_db["oslo_planning_documents"]
        IN  /\ Len(rows) = Len(verified_documents)
            /\ \A d \in 1..Len(verified_documents) :
                   \E i \in 1..Len(rows) : rows[i].title = verified_documents[d].title
            /\ \A i, j \in 1..Len(rows) :
                   i # j => /\ rows[i].title # rows[j].title
                            /\ rows[i].document_hash # rows[j].document_hash

C21_Witness ==
    /\ returned.call = "Refresh Database"
    /\ Len(premium_db["oslo_planning_documents"]) = Len(verified_documents)

\* C22: after initialisation every document's category is the category_name
\* of some row of document_categories.
C22_CategoryCoverage ==
    db_path = DefaultPath =>
        \A i \in 1..Len(premium_db["oslo_planning_documents"]) :
            \E c \in 1..Len(premium_db["document_categories"]) :
                premium_db["document_categories"][c].category_name
                    = premium_db["oslo_planning_documents"][i].category

C22_Witness ==
    /\ returned.call = "get_categories"
    /\ Len(returned.rows) = Len(categories)
    /\ Len(premium_db["oslo_planning_documents"]) = Len(verified_documents)

\* the stored documents
StoredDocuments ==
    {premium_db["oslo_planning_documents"][i] :
        i \in 1..Len(premium_db["oslo_planning_documents"])}

\* the rows a query returned, none of them twice
ReturnedDocuments == {returned.rows[i] : i \in 1..Len(returned.rows)}

\* C23 as stated: for every category name c, get_documents_by_category(c)
\* returns exactly the stored documents whose category equals c; called with
\* no category it returns the documents of get_all_documents.
C23_CategoryFilterExact ==
    returned.call = "get_documents_by_category" =>
        IF returned.argument = PyNone
        THEN returned.rows = get_all_documents(premium_db)
        ELSE /\ ReturnedDocuments =
                    {r \in StoredDocuments : r.category = returned.argument.s}
             /\ Cardinality(ReturnedDocuments) = Len(returned.rows)

\* C23 amended: for every non-empty category name c,
\* get_documents_by_category(c) returns exactly the stored documents whose
\* category equals c; called with no category or with the empty string it
\* returns the documents of get_all_documents.
C23_NonEmptyCategoryFilterExact ==
    returned.call = "get_documents_by_category" =>
        IF returned.argument \in {PyNone, PyStr(<<>>)}
        THEN returned.rows = get_all_documents(premium_db)
        ELSE /\ ReturnedDocuments =
                    {r \in StoredDocuments : r.category = returned.argument.s}
             /\ Cardinality(ReturnedDocuments) = Len(returned.rows)

C23_Witness ==
    /\ returned.call = "get_documents_by_category"
    /\ returned.argument = PyStr(categories[1].category_name)
    /\ returned.rows # <<>>
    /\ Len(returned.rows) < Len(premium_db["oslo_planning_documents"])

\* C24: for every search term, search_documents returns a document only if
\* the term occurs, case-insensitively, as a substring of its title,
\* description or tags; a term that occurs in none of them returns nothing.
C24_SearchOnlySubstringMatches ==
    returned.call = "search_documents" =>
        \A r \in ReturnedDocuments :
            \/ Contains(Lower(returned.argument.s), Lower(r.title))
            \/ Contains(Lower(returned.argument.s), Lower(r.description))
            \/ Contains(Lower(returned.argument.s), Lower(r.tags))
====
